---- MODULE Spec2Model ----
(***************************************************************************)
(* Sol2Rust: the deployment coordinator of client/src/lib/web3.ts          *)
(* (deployContract): constructor-argument normalization and coercion, fee  *)
(* options, the direct (Arbitrum) and the standard (factory) submission    *)
(* paths, and the DeploymentResult it returns.                             *)
(*                                                                         *)
(* JavaScript strings are sequences of one-character strings, so that      *)
(* includes, startsWith, trim, Number and parseInt are computed.           *)
(***************************************************************************)
EXTENDS Integers, Sequences, FiniteSets, TLC

(***************************************************************************)
(* Bounds of the model.                                                    *)
(***************************************************************************)
\* longest constructor parameter list drawn from the sample signatures
MaxParams == 3
\* longest supplied argument list drawn from the sample argument lists
MaxArgs == 3

(***************************************************************************)
(* String helpers (String.prototype.includes / startsWith / trim).         *)
(***************************************************************************)
Includes(s, sub) ==
    \E i \in 0..(Len(s) - Len(sub)) : SubSeq(s, i + 1, i + Len(sub)) = sub

StartsWith(s, pre) ==
    Len(s) >= Len(pre) /\ SubSeq(s, 1, Len(pre)) = pre

\* white space of the texts used here: blank, line feed, tab
WhiteSpace == {" ", "\n", "\t"}

RECURSIVE TrimStart(_)
TrimStart(s) ==
    IF s # <<>> /\ Head(s) \in WhiteSpace THEN TrimStart(Tail(s)) ELSE s

RECURSIVE TrimEnd(_)
TrimEnd(s) ==
    IF s # <<>> /\ s[Len(s)] \in WhiteSpace
    THEN TrimEnd(SubSeq(s, 1, Len(s) - 1)) ELSE s

Trim(s) == TrimEnd(TrimStart(s))

LowerOf(c) ==
    CASE c = "T" -> "t"
      [] c = "V" -> "v"
      [] c = "K" -> "k"
      [] c = "N" -> "n"
      [] c = "S" -> "s"
      [] OTHER -> c

ToLowerCase(s) == [i \in 1..Len(s) |-> LowerOf(s[i])]

(***************************************************************************)
(* Number(s) and parseInt(s, 10) on strings made of decimal digits, the    *)
(* hex prefix, letters and blanks.  A result is [nan, n].                  *)
(***************************************************************************)
DecDigits == {"0", "1", "2", "3", "4", "5", "6", "7", "8", "9"}
HexDigits == DecDigits \cup {"a", "b", "c", "d", "e", "f"}

DigitVal(c) ==
    CASE c = "0" -> 0 [] c = "1" -> 1 [] c = "2" -> 2 [] c = "3" -> 3
      [] c = "4" -> 4 [] c = "5" -> 5 [] c = "6" -> 6 [] c = "7" -> 7
      [] c = "8" -> 8 [] c = "9" -> 9 [] c = "a" -> 10 [] c = "b" -> 11
      [] c = "c" -> 12 [] c = "d" -> 13 [] c = "e" -> 14 [] c = "f" -> 15
      [] OTHER -> 0

RECURSIVE RadixValue(_, _)
RadixValue(s, radix) ==
    IF s = <<>> THEN 0
    ELSE RadixValue(SubSeq(s, 1, Len(s) - 1), radix) * radix + DigitVal(s[Len(s)])

NaN == [nan |-> TRUE, n |-> 0]
Finite(n) == [nan |-> FALSE, n |-> n]

\* Number(s): blank -> 0, decimal digits -> value, 0x + hex digits -> value.
\* The hex value is kept only as zero / non-zero (1): sampled hex strings are
\* addresses, far wider than a machine integer.
ToNumber(s) ==
    LET t == Trim(s) IN
    IF t = <<>> THEN Finite(0)
    ELSE IF \A i \in 1..Len(t) : t[i] \in DecDigits THEN Finite(RadixValue(t, 10))
    ELSE IF /\ Len(t) > 2
            /\ SubSeq(t, 1, 2) = <<"0", "x">>
            /\ \A i \in 3..Len(t) : t[i] \in HexDigits
         THEN Finite(IF \A i \in 3..Len(t) : t[i] = "0" THEN 0 ELSE 1)
    ELSE NaN

RECURSIVE DigitPrefix(_)
DigitPrefix(s) ==
    IF s # <<>> /\ Head(s) \in DecDigits
    THEN <<Head(s)>> \o DigitPrefix(Tail(s))
    ELSE <<>>

\* parseInt(s, 10): leading blanks skipped, then the longest run of digits.
ParseInt(s) ==
    LET d == DigitPrefix(TrimStart(s)) IN
    IF d = <<>> THEN NaN ELSE Finite(RadixValue(d, 10))

(***************************************************************************)
(* JavaScript values that JSON text can carry.                             *)
(***************************************************************************)
StrV(s)  == [t |-> "string",  s |-> s,    n |-> 0, b |-> FALSE]
NumV(n)  == [t |-> "number",  s |-> <<>>, n |-> n, b |-> FALSE]
BoolV(b) == [t |-> "boolean", s |-> <<>>, n |-> 0, b |-> b]
NullV    == [t |-> "object",  s |-> <<>>, n |-> 0, b |-> FALSE]
\* the value of an index past the end of an array
UndefinedV == [t |-> "undefined", s |-> <<>>, n |-> 0, b |-> FALSE]

\* typeof v
TypeOf(v) == v.t

ZeroAddress == <<"0", "x">> \o [i \in 1..40 |-> "0"]

(***************************************************************************)
(* ABI type tags and parameter names (AbiParameter {name, type}).          *)
(***************************************************************************)
TyString         == <<"s", "t", "r", "i", "n", "g">>
TyStringArr      == <<"s", "t", "r", "i", "n", "g", "[", "]">>
TyUint256        == <<"u", "i", "n", "t", "2", "5", "6">>
TyUint8          == <<"u", "i", "n", "t", "8">>
TyInt256         == <<"i", "n", "t", "2", "5", "6">>
TyBool           == <<"b", "o", "o", "l">>
TyBoolArr        == <<"b", "o", "o", "l", "[", "]">>
TyAddress        == <<"a", "d", "d", "r", "e", "s", "s">>
TyAddressPayable == <<"a", "d", "d", "r", "e", "s", "s", " ", "p", "a", "y", "a", "b", "l", "e">>
TyBytes32        == <<"b", "y", "t", "e", "s", "3", "2">>

TypeTags ==
    {TyString, TyStringArr, TyUint256, TyUint8, TyInt256, TyBool, TyBoolArr,
     TyAddress, TyAddressPayable, TyBytes32}

NmName          == <<"n", "a", "m", "e">>
NmSymbol        == <<"s", "y", "m", "b", "o", "l">>
NmDecimals      == <<"d", "e", "c", "i", "m", "a", "l", "s">>
NmInitialSupply == <<"i", "n", "i", "t", "i", "a", "l", "S", "u", "p", "p", "l", "y">>
NmSupply        == <<"s", "u", "p", "p", "l", "y">>
NmAmount        == <<"a", "m", "o", "u", "n", "t">>
NmOwner         == <<"o", "w", "n", "e", "r">>
NmFlag          == <<"f", "l", "a", "g">>

Param(type, name) == [type |-> type, name |-> name]

\* the type or name of an entry that carries none (undefined)
Absent == <<"undefined">>

\* x || '' on a type or a name
OrEmpty(x) == IF x = Absent THEN <<>> ELSE x

\* substrings the code looks for
SubString  == <<"s", "t", "r", "i", "n", "g">>
SubInt     == <<"i", "n", "t">>
SubUint    == <<"u", "i", "n", "t">>
SubBool    == <<"b", "o", "o", "l">>
SubAddress == <<"a", "d", "d", "r", "e", "s", "s">>
SubToken   == <<"t", "o", "k", "e", "n">>
SubName    == <<"n", "a", "m", "e">>
SubSymbol  == <<"s", "y", "m", "b", "o", "l">>
SubDecimal == <<"d", "e", "c", "i", "m", "a", "l">>
SubSupply  == <<"s", "u", "p", "p", "l", "y">>
SubAmount  == <<"a", "m", "o", "u", "n", "t">>
HexPrefix  == <<"0", "x">>

\* contract labels
LabelToken == <<"T", "o", "k", "e", "n">>
LabelVault == <<"V", "a", "u", "l", "t">>

\* sample strings
SEmpty   == <<>>
SAbc     == <<"a", "b", "c">>
S42      == <<"4", "2">>
S8       == <<"8">>
S0       == <<"0">>
SPadded7 == <<" ", "7", " ">>
SBlank   == <<" ", " ">>
SMyToken == <<"M", "y", "T", "o", "k", "e", "n">>
SMTK     == <<"M", "T", "K">>
SPaddedA == <<" ", "A", " ">>
SShortHex == <<"0", "x", "a", "b">>
SAddress1 == <<"0", "x">> \o [i \in 1..40 |-> "1"]

(***************************************************************************)
(* rawArgumentsText as a sequence of JSON tokens, and JSON.parse on it.    *)
(* A token is a punctuation mark, a literal (string, number, boolean,      *)
(* null) or a bare word that is no JSON literal (such as  My Token ).      *)
(***************************************************************************)
Punct(c) == [k |-> "punct", p |-> c,  v |-> NullV]
Lit(v)   == [k |-> "lit",   p |-> "", v |-> v]
Bare     == [k |-> "bare",  p |-> "", v |-> NullV]

IsPunct(tok, c) == tok.k = "punct" /\ tok.p = c
IsLit(tok)      == tok.k = "lit"
IsKey(tok)      == tok.k = "lit" /\ TypeOf(tok.v) = "string"

Inner(toks) == SubSeq(toks, 2, Len(toks) - 1)

\* value (, value)*  or nothing
ElementsOK(in) ==
    \/ in = <<>>
    \/ /\ Len(in) % 2 = 1
       /\ \A i \in 1..Len(in) :
            IF i % 2 = 1 THEN IsLit(in[i]) ELSE IsPunct(in[i], ",")

\* key : value (, key : value)*  or nothing
MembersOK(in) ==
    \/ in = <<>>
    \/ /\ Len(in) % 4 = 3
       /\ \A i \in 1..Len(in) :
            CASE i % 4 = 1 -> IsKey(in[i])
              [] i % 4 = 2 -> IsPunct(in[i], ":")
              [] i % 4 = 3 -> IsLit(in[i])
              [] OTHER     -> IsPunct(in[i], ",")

Elements(in) == [j \in 1..((Len(in) + 1) \div 2) |-> in[2 * j - 1].v]
Members(in)  == [j \in 1..((Len(in) + 1) \div 4) |-> in[4 * j - 1].v]

ParseThrows == [ok |-> FALSE, kind |-> "none",   items |-> <<>>, val |-> NullV]
ParsedArray(xs)  == [ok |-> TRUE, kind |-> "array",  items |-> xs, val |-> NullV]
ParsedObject(xs) == [ok |-> TRUE, kind |-> "object", items |-> xs, val |-> NullV]
ParsedScalar(v)  == [ok |-> TRUE, kind |-> "scalar", items |-> <<>>, val |-> v]

\* JSON.parse(params.constructorArgs); ok = FALSE is the SyntaxError.
\* Object members are kept in text order (keys distinct, none an array index).
JSONParse(toks) ==
    IF Len(toks) = 1 /\ IsLit(toks[1]) THEN ParsedScalar(toks[1].v)
    ELSE IF /\ Len(toks) >= 2
            /\ IsPunct(toks[1], "[") /\ IsPunct(toks[Len(toks)], "]")
            /\ ElementsOK(Inner(toks))
         THEN ParsedArray(Elements(Inner(toks)))
    ELSE IF /\ Len(toks) >= 2
            /\ IsPunct(toks[1], "{") /\ IsPunct(toks[Len(toks)], "}")
            /\ MembersOK(Inner(toks))
         THEN ParsedObject(Members(Inner(toks)))
    ELSE ParseThrows

\* Object.values(parsedArgs) for a value that is not an array: the members of
\* an object, the characters of a string, nothing for a number or a boolean,
\* a TypeError (ok = FALSE) for null.
ObjectValues(parsed) ==
    IF parsed.kind = "object" THEN [ok |-> TRUE, items |-> parsed.items]
    ELSE IF TypeOf(parsed.val) = "string"
         THEN [ok |-> TRUE,
               items |-> [i \in 1..Len(parsed.val.s) |-> StrV(<<parsed.val.s[i]>>)]]
    ELSE IF TypeOf(parsed.val) \in {"number", "boolean"}
         THEN [ok |-> TRUE, items |-> <<>>]
    ELSE [ok |-> FALSE, items |-> <<>>]

(***************************************************************************)
(* The ABI: a sequence of items; the constructor is the first item whose   *)
(* type is 'constructor' (abi.find).                                       *)
(***************************************************************************)
AbiItem(type, hasInputs, isArray, inputs) ==
    [type |-> type, hasInputs |-> hasInputs, isArray |-> isArray, inputs |-> inputs]

CtorItem(inputs) == AbiItem("constructor", TRUE, TRUE, inputs)
CtorNoInputs     == AbiItem("constructor", FALSE, FALSE, <<>>)
\* a constructor entry whose inputs is an object, not an array
CtorInputsObject == AbiItem("constructor", TRUE, FALSE, <<>>)
FnItem           == AbiItem("function", TRUE, TRUE, <<>>)
\* an ABI entry that is null
NullItem         == AbiItem("null", FALSE, FALSE, <<>>)
Undefined        == AbiItem("undefined", FALSE, FALSE, <<>>)
\* abi.find threw: item.type was read from a null entry
FindThrew        == AbiItem("TypeError", FALSE, FALSE, <<>>)

RECURSIVE FindConstructor(_)
FindConstructor(abi) ==
    IF abi = <<>> THEN Undefined
    ELSE IF Head(abi).type = "null" THEN FindThrew
    ELSE IF Head(abi).type = "constructor" THEN Head(abi)
    ELSE FindConstructor(Tail(abi))

\* constructorAbi && constructorAbi.inputs
HasInputs(item) == item.type = "constructor" /\ item.hasInputs

(***************************************************************************)
(* Argument normalization (parse, pad with defaults, truncate).            *)
(***************************************************************************)
\* defaults chosen by comparing the whole type tag
DefaultForExactTag(type) ==
    IF type = SubString THEN StrV(<<>>)
    ELSE IF type = SubInt THEN StrV(S0)
    ELSE IF type = SubBool THEN BoolV(FALSE)
    ELSE IF type = SubAddress THEN StrV(ZeroAddress)
    ELSE StrV(S0)

\* the default pushed for the next input's type
DefaultFor(type) ==
    IF Includes(type, SubString) THEN StrV(<<>>)
    ELSE IF Includes(type, SubInt) THEN StrV(S0)
    ELSE IF Includes(type, SubBool) THEN BoolV(FALSE)
    ELSE IF Includes(type, SubAddress) THEN StrV(ZeroAddress)
    ELSE StrV(S0)

RECURSIVE PadArgs(_, _)
PadArgs(args, inputs) ==
    IF Len(args) < Len(inputs)
    THEN PadArgs(Append(args, DefaultFor(inputs[Len(args) + 1].type)), inputs)
    ELSE args

\* constructorArgs.slice(0, n)
Slice0(args, n) == SubSeq(args, 1, IF n < Len(args) THEN n ELSE Len(args))

\* padding without the trailing slice
ReconcileLengthNoSlice(args, inputs) == PadArgs(args, inputs)

ReconcileLength(args, inputs) == Slice0(PadArgs(args, inputs), Len(inputs))

\* nextInput.type.includes throws in the while loop: an input that has to be
\* filled carries no type
PadThrows(args, inputs) ==
    \E i \in (Len(args) + 1)..Len(inputs) : inputs[i].type = Absent

\* the try / catch block that fills constructorArgs
NormalizeArgs(text, abi) ==
    LET parsedArgs     == JSONParse(text)
        values         == ObjectValues(parsedArgs)
        constructorAbi == FindConstructor(abi)
    IN  IF ~parsedArgs.ok THEN <<>>
        ELSE IF parsedArgs.kind # "array" /\ ~values.ok THEN <<>>
        ELSE IF constructorAbi = FindThrew THEN <<>>
        ELSE LET args == IF parsedArgs.kind = "array" THEN parsedArgs.items
                         ELSE values.items
             IN  IF HasInputs(constructorAbi)
                 THEN IF ~constructorAbi.isArray THEN args
                      ELSE IF PadThrows(args, constructorAbi.inputs) THEN <<>>
                      ELSE ReconcileLength(args, constructorAbi.inputs)
                 ELSE args

(***************************************************************************)
(* Per-argument processing on the direct path.                             *)
(***************************************************************************)
\* defaultArgs of the token branch
DefaultDecimals == 18
DefaultTotalSupply == 1000000

\* constructorArgs[index] with a 0-based index
ArgAt(args, index) ==
    IF index + 1 <= Len(args) THEN args[index + 1] ELSE UndefinedV

\* typeof v === 'string' && v.trim()
NonBlankString(v) == TypeOf(v) = "string" /\ Trim(v.s) # <<>>

\* x || d on numbers
OrElse(x, d) == IF x = 0 THEN d ELSE x

\* one iteration of constructorAbiItem.inputs.forEach in the token branch
TokenTypedArg(args, input, index) ==
    LET inputType == OrEmpty(input.type)
        inputName == OrEmpty(input.name)
        arg       == ArgAt(args, index)
    IN  IF Includes(inputType, SubString)
        THEN IF index = 0 /\ NonBlankString(ArgAt(args, 0))
                 THEN StrV(Trim(ArgAt(args, 0).s))
             ELSE IF index = 1 /\ NonBlankString(ArgAt(args, 1))
                 THEN StrV(Trim(ArgAt(args, 1).s))
             ELSE IF Includes(inputName, SubName) THEN StrV(SMyToken)
             ELSE IF Includes(inputName, SubSymbol) THEN StrV(SMTK)
             ELSE StrV(<<>>)
        ELSE IF Includes(inputType, SubUint)
        THEN LET parsed   == IF TypeOf(arg) = "string" THEN ParseInt(arg.s) ELSE NaN
                 numValue == IF TypeOf(arg) = "number" THEN arg.n
                             ELSE IF TypeOf(arg) = "string" /\ ~parsed.nan THEN parsed.n
                             ELSE 0
             IN  IF Includes(inputName, SubDecimal)
                     THEN NumV(OrElse(numValue, DefaultDecimals))
                 ELSE IF Includes(inputName, SubSupply) \/ Includes(inputName, SubAmount)
                     THEN NumV(OrElse(numValue, DefaultTotalSupply))
                 ELSE NumV(numValue)
        ELSE IF Includes(inputType, SubAddress)
        THEN IF /\ TypeOf(arg) = "string"
                /\ StartsWith(arg.s, HexPrefix)
                /\ Len(arg.s) = 42
             THEN arg
             ELSE StrV(ZeroAddress)
        ELSE IF Includes(inputType, SubBool)
        THEN IF TypeOf(arg) = "boolean" THEN arg ELSE BoolV(FALSE)
        ELSE NumV(0)

\* typedArgs of the token branch
TokenTypedArgs(args, constructorAbiItem) ==
    IF HasInputs(constructorAbiItem)
    THEN [i \in 1..Len(constructorAbiItem.inputs) |->
            TokenTypedArg(args, constructorAbiItem.inputs[i], i - 1)]
    ELSE <<>>

\* the callback with the numeric conversion applied whatever the type
ProcessArgAnyType(arg, inputType) ==
    IF TypeOf(arg) = "string"
    THEN IF arg.s = <<>> \/ ToNumber(arg.s).nan
         THEN NumV(0)
         ELSE NumV(ToNumber(arg.s).n)
    ELSE arg

\* the callback of constructorArgs.map in the non-token branch
ProcessArg(arg, inputType) ==
    IF Includes(inputType, SubUint) /\ TypeOf(arg) = "string"
    THEN IF arg.s = <<>> \/ ToNumber(arg.s).nan
         THEN NumV(0)
         ELSE NumV(ToNumber(arg.s).n)
    ELSE IF /\ Includes(inputType, SubAddress)
            /\ TypeOf(arg) = "string"
            /\ ~StartsWith(arg.s, HexPrefix)
         THEN StrV(ZeroAddress)
    ELSE arg

\* constructorAbiItem.inputs[index]?.type || ''
InputTypeAt(inputs, i) == IF i <= Len(inputs) THEN OrEmpty(inputs[i].type) ELSE <<>>

\* processedArgs of the non-token branch
ProcessedArgs(args, constructorAbiItem) ==
    [i \in 1..Len(args) |-> ProcessArg(args[i], InputTypeAt(constructorAbiItem.inputs, i))]

\* the registry: id, display name and the deployDirectly flag of each entry
Network(id, name, deployDirectly) ==
    [id |-> id, name |-> name, deployDirectly |-> deployDirectly]

networks ==
    <<Network(1, "Ethereum", TRUE),
      Network(137, "Polygon", TRUE),
      Network(10, "Optimism", TRUE),
      Network(42161, "Arbitrum", TRUE),
      Network(8453, "Base", TRUE),
      Network(421613, "Arbitrum Goerli", TRUE)>>

\* the chains that take the direct path
ChainArbitrum == 42161
ChainArbitrumGoerli == 421613
IsArbitrum(chainId) == chainId = ChainArbitrum \/ chainId = ChainArbitrumGoerli

\* params.contractName.toLowerCase().includes('token')
IsTokenLabel(contractName) == Includes(ToLowerCase(contractName), SubToken)

\* what the processing on the direct path throws, if it throws: abi.find on a
\* null entry, or (token branch) forEach on inputs that is no array
FindTypeError    == <<"Cannot read properties of null (reading 'type')">>
ForEachTypeError == <<"constructorAbiItem.inputs.forEach is not a function">>

DirectPathThrows(contractName, abi) ==
    LET constructorAbiItem == FindConstructor(abi) IN
    \/ constructorAbiItem = FindThrew
    \/ /\ IsTokenLabel(contractName)
       /\ HasInputs(constructorAbiItem)
       /\ ~constructorAbiItem.isArray

DirectPathError(contractName, abi) ==
    IF FindConstructor(abi) = FindThrew THEN FindTypeError ELSE ForEachTypeError

\* constructorArgs as the direct path leaves it before encoding
DirectPathArgs(contractName, abi, args) ==
    LET constructorAbiItem == FindConstructor(abi) IN
    IF IsTokenLabel(contractName) THEN TokenTypedArgs(args, constructorAbiItem)
    ELSE IF HasInputs(constructorAbiItem) THEN ProcessedArgs(args, constructorAbiItem)
    ELSE args

\* the list handed to the transaction encoder (encodeDeploy / factory.deploy)
EncoderArgs(chainId, contractName, abi, args) ==
    IF IsArbitrum(chainId) THEN DirectPathArgs(contractName, abi, args) ELSE args

(***************************************************************************)
(* Sampled inputs.                                                         *)
(***************************************************************************)
Min(a, b) == IF a < b THEN a ELSE b

Prefixes(S, max) == {SubSeq(S, 1, n) : n \in 0..Min(max, Len(S))}

SigToken ==
    <<Param(TyString, NmName), Param(TyString, NmSymbol),
      Param(TyUint8, NmDecimals), Param(TyUint256, NmInitialSupply),
      Param(TyAddress, NmOwner)>>
SigVault ==
    <<Param(TyAddress, NmOwner), Param(TyBool, NmFlag),
      Param(TyInt256, NmAmount), Param(TyBytes32, NmName),
      Param(TyString, NmSymbol)>>
SigArrays ==
    <<Param(TyStringArr, NmName), Param(TyBoolArr, NmFlag),
      Param(TyAddressPayable, NmOwner), Param(TyUint256, NmSupply),
      Param(TyBool, NmFlag)>>
SigSupply ==
    <<Param(TyUint256, NmSupply), Param(TyUint8, NmDecimals),
      Param(TyString, NmSymbol), Param(TyAddress, NmOwner),
      Param(TyUint256, NmAmount)>>

SampleSignatures == {SigToken, SigVault, SigArrays, SigSupply}

\* constructor(string name, string symbol, uint8 decimals, uint256 initialSupply),
\* the token constructor of the modal's hint
TokenConstructor == SubSeq(SigToken, 1, 4)

CtorInputs ==
    UNION {Prefixes(S, MaxParams) : S \in SampleSignatures}
    \cup {<<Param(t, n)>> : t \in TypeTags, n \in {NmDecimals, NmOwner}}

\* what the model may generate besides well-formed ABIs: null entries before
\* or after the constructor, inputs without a type or without a name, inputs
\* that is an object
MalformedABIs ==
    {<<NullItem, CtorItem(SubSeq(SigToken, 1, 2))>>,
     <<CtorItem(SubSeq(SigVault, 1, 2)), NullItem>>,
     <<CtorItem(<<Param(TyString, NmName), Param(Absent, NmDecimals)>>)>>,
     <<CtorItem(<<Param(TyUint256, Absent)>>)>>,
     <<CtorInputsObject>>}

ABIs ==
    {<<CtorItem(i)>> : i \in CtorInputs}
    \cup {<<>>, <<FnItem>>, <<CtorNoInputs>>,
          <<FnItem, CtorItem(SubSeq(SigToken, 1, 2))>>,
          <<CtorItem(TokenConstructor)>>}
    \cup MalformedABIs

ArgsToken == <<StrV(SMyToken), StrV(SMTK), StrV(S8), StrV(S42), StrV(SAddress1)>>
ArgsBad   == <<StrV(SAbc), StrV(SEmpty), StrV(SPadded7), NumV(5), BoolV(TRUE)>>
ArgsMixed == <<StrV(SAddress1), BoolV(TRUE), NumV(0), NullV, StrV(SAbc)>>
ArgsBlank == <<StrV(SPaddedA), StrV(SBlank), NumV(6), StrV(S0), NumV(5)>>

SampleArgLists == {ArgsToken, ArgsBad, ArgsMixed, ArgsBlank}

RECURSIVE Range(_)
Range(S) == IF S = <<>> THEN {} ELSE {Head(S)} \cup Range(Tail(S))

SampleValues ==
    UNION {Range(L) : L \in SampleArgLists} \cup {StrV(SShortHex), BoolV(FALSE)}

ArgLists ==
    UNION {Prefixes(L, MaxArgs) : L \in SampleArgLists}
    \cup {<<v>> : v \in SampleValues}

\* [v1, v2, ...]
ArrayText(list) ==
    <<Punct("[")>>
    \o [j \in 1..(IF list = <<>> THEN 0 ELSE 2 * Len(list) - 1) |->
          IF j % 2 = 1 THEN Lit(list[(j + 1) \div 2]) ELSE Punct(",")]
    \o <<Punct("]")>>

KeyOf(j) == StrV(<<"k">> \o [i \in 1..j |-> "k"])

\* {"kk": v1, "kkk": v2, ...}
ObjectText(list) ==
    <<Punct("{")>>
    \o [j \in 1..(IF list = <<>> THEN 0 ELSE 4 * Len(list) - 1) |->
          CASE j % 4 = 1 -> Lit(KeyOf((j + 3) \div 4))
            [] j % 4 = 2 -> Punct(":")
            [] j % 4 = 3 -> Lit(list[(j + 1) \div 4])
            [] OTHER     -> Punct(",")]
    \o <<Punct("}")>>

ArrayTexts  == {ArrayText(l) : l \in ArgLists}
ObjectTexts == {ObjectText(l) : l \in UNION {Prefixes(L, MaxArgs) : L \in SampleArgLists}}
ScalarTexts == {<<Lit(v)>> : v \in SampleValues}
InvalidTexts ==
    {<<>>, <<Bare>>, <<Bare, Bare>>,
     <<Punct("["), Lit(StrV(SAbc))>>,
     <<Punct("["), Lit(StrV(SAbc)), Lit(NumV(5)), Punct("]")>>,
     <<Punct("["), Lit(StrV(SAbc)), Punct(","), Punct("]")>>,
     <<Punct("{"), Lit(StrV(SAbc)), Punct("}")>>,
     <<Punct("{"), Lit(NumV(5)), Punct(":"), Lit(NumV(5)), Punct("}")>>}

RawTexts == ArrayTexts \cup ObjectTexts \cup ScalarTexts \cup InvalidTexts

ChainEthereum == 1
\* a registered standard-path chain, a chain id the registry does not list (5),
\* and the two direct-path chains
ChainIds == {ChainEthereum, 5, ChainArbitrum, ChainArbitrumGoerli}

ContractNames == {LabelToken, LabelVault}

\* the modal's default gas limit
DefaultGasLimit == 3000000

\* the gas limits a caller passes: the default, or one typed into the modal
GasLimits == {DefaultGasLimit, 21000}

BytecodeHex      == <<"0", "x", "6", "0", "8", "0">>
BytecodeNoPrefix == <<"6", "0", "8", "0">>
Bytecodes == {BytecodeHex, BytecodeNoPrefix}

(***************************************************************************)
(* deployContract as a state machine: one action per await.                *)
(***************************************************************************)
VARIABLES
    hasEthereum,     \* window.ethereum is present
    pc,              \* the await deployContract is suspended at
    params,          \* DeploymentParams of the call
    abi,             \* abi of the compile response
    bytecode,        \* bytecode of the compile response
    constructorArgs, \* the local constructorArgs
    normalizedArgs,  \* constructorArgs as logged by "Deploy with arguments:"
    encoderArgs,     \* the list given to encodeDeploy / factory.deploy
    deployOptions,   \* the local deployOptions
    txData,          \* data of the transactionRequest (direct path)
    tx,              \* the transaction given to the signer: sent, or rejected
    receipt,         \* what tx.wait() gave: null, a receipt, or a rejection
    result           \* what deployContract returned, or that it threw

deployVars ==
    <<hasEthereum, pc, params, abi, bytecode, constructorArgs, normalizedArgs,
      encoderArgs, deployOptions, txData, tx, receipt, result>>

(***************************************************************************)
(* The page: Home, the conversion panel and the deployment modal.          *)
(***************************************************************************)
VARIABLES
    walletState,       \* Home: null, or the connected wallet
    isDeployModalOpen, \* Home
    rustCodeToDeploy,  \* Home
    solidityCode,      \* ConversionPanel: the Solidity editor
    rustCode,          \* ConversionPanel: the Rust editor
    isConverting,      \* ConversionPanel
    conversionError,   \* ConversionPanel: null, or a message
    isConverted,       \* ConversionPanel
    conversions,       \* the convertSolidityToRust calls that have not settled
    toast,             \* title of the last toast
    isDeploying,       \* DeploymentModal
    deploymentError,   \* DeploymentModal: null, or a message
    deploymentSuccess, \* DeploymentModal
    contractAddress,   \* DeploymentModal: null, or an address
    transactionHash,   \* DeploymentModal: null, or a hash
    deployCalls        \* the modal's deployContract calls that have not settled

homeVars  == <<walletState, isDeployModalOpen, rustCodeToDeploy>>
panelVars ==
    <<solidityCode, rustCode, isConverting, conversionError, isConverted,
      conversions, toast>>
modalVars ==
    <<isDeploying, deploymentError, deploymentSuccess, contractAddress,
      transactionHash, deployCalls>>

\* AppHeader: the switchNetwork calls that have not settled, each with the
\* network chosen and the walletState of the render the choice was made in
VARIABLES switches

headerVars == <<switches>>

uiVars == <<homeVars, panelVars, modalVars, headerVars>>

(***************************************************************************)
(* The server: the two routes, the conversion service and the model        *)
(* gateway.  A request is followed from its arrival to its response.       *)
(***************************************************************************)
VARIABLES
    request,       \* the request being handled: its route and req.body
    modelCalls,    \* generateContent calls made for the request
    modelReply,    \* what generateContent gave: a text, or an error
    compiled,      \* compiledOutput: what simulateCompileWithGemini gave
    response       \* the response sent: its status and body

serverVars == <<request, modelCalls, modelReply, compiled, response>>

vars == <<deployVars, uiVars, serverVars>>

\* the most deployContract calls followed at a time
MaxCalls == 2

\* null in a state that holds a string or null
NullText == <<"null">>

\* a request: its route and req.body (absent, or an object with its fields)
Request(route, hasBody, solidityCodeField, rustCodeField, contractNameField) ==
    [route |-> route, hasBody |-> hasBody, solidityCode |-> solidityCodeField,
     rustCode |-> rustCodeField, contractName |-> contractNameField]

\* a response: its status and the fields of its JSON body
Response(status, keys, success, code, a, b, error) ==
    [status |-> status, keys |-> keys, success |-> success, rustCode |-> code,
     abi |-> a, bytecode |-> b, error |-> error]

\* what generateContent gave for a conversion: a text, or a thrown value (an
\* Error with its message, or something else)
ConvertReply(kind, text, message) ==
    [kind |-> kind, hasAbi |-> FALSE, abi |-> <<>>, bytecode |-> UndefinedV,
     text |-> text, message |-> message]

\* no request at hand, no reply yet, no response sent
NoRequest  == Request("none", FALSE, UndefinedV, UndefinedV, UndefinedV)
NoReply    == ConvertReply("none", <<>>, <<>>)
NoResponse == Response(0, {}, FALSE, <<>>, <<>>, <<>>, <<>>)
NoOutput   == [threw |-> FALSE, hasAbi |-> FALSE, abi |-> <<>>, bytecode |-> <<>>]

\* walletState before a wallet is connected
NullWallet == [isConnected |-> FALSE, address |-> "", chainId |-> 0, chainName |-> ""]

\* the editors' texts: what the panel starts with, what Clear and Load Example
\* put there, what a user types (nothing, here), what the model answers
SolidityInitial == "contract SimpleStorage"
SolidityCleared == "// Enter your Solidity code here"
SolidityExample == "contract Token"
RustInitial     ==
    "// Your converted Rust code will appear here after conversion. // Click the Convert to Rust button to start the process."
RustCleared     == "// Your converted Rust code will appear here after conversion."
RustConverted   == "#[ink::contract]"

\* fee values in units of 0.01 gwei
MaxFeePerGas == 10
MaxPriorityFeePerGas == 1
GasPrice == 1000

NoParams == [contractName |-> <<>>, constructorArgs |-> <<>>, gasLimit |-> 0, chainId |-> 0]
NoOptions ==
    [keys |-> {}, gasLimit |-> 0, gasPrice |-> 0, maxFeePerGas |-> 0,
     maxPriorityFeePerGas |-> 0, nonce |-> 0]
NoTx      == [state |-> "none", hash |-> "", withOverrides |-> FALSE]
NoReceipt == [observed |-> "none", status |-> 0, contractAddress |-> ""]
Pending ==
    [state |-> "pending", keys |-> {}, success |-> FALSE, contractAddress |-> "",
     transactionHash |-> "", error |-> <<>>]

\* what an awaited call can reject with: an Error (with or without a message)
\* or a value that is no Error
RejectReasons ==
    {[isError |-> TRUE,  message |-> <<"user rejected the request">>],
     [isError |-> TRUE,  message |-> <<>>],
     [isError |-> FALSE, message |-> <<>>]}

ErrorOf(message) == [isError |-> TRUE, message |-> message]

\* the inner catch with the reason's message passed on as it is
DeployErrorNoFallback(reason) == ErrorOf(reason.message)

\* the inner catch: new Error(`Deployment failed: ${deployError.message || "Unknown error"}`)
DeployError(reason) ==
    ErrorOf(<<"Deployment failed: ">>
            \o (IF reason.message # <<>> THEN reason.message ELSE <<"Unknown error">>))

\* the outer catch
Failure(reason) ==
    [state |-> "returned", keys |-> {"success", "error"}, success |-> FALSE,
     contractAddress |-> "", transactionHash |-> "",
     error |-> IF reason.isError THEN reason.message
               ELSE <<"Unknown error during deployment">>]

\* the return statement
Success(address, hash) ==
    [state |-> "returned", keys |-> {"success", "contractAddress", "transactionHash"},
     success |-> TRUE, contractAddress |-> address, transactionHash |-> hash,
     error |-> <<>>]

Thrown(message) ==
    [state |-> "thrown", keys |-> {}, success |-> FALSE, contractAddress |-> "",
     transactionHash |-> "", error |-> message]

\* the fee options with the modal's default as gas limit whatever the caller
\* passed
FeeOptionsDefaultGas(chainId, gasLimit) ==
    IF IsArbitrum(chainId)
    THEN [NoOptions EXCEPT !.keys = {"gasLimit", "maxFeePerGas", "maxPriorityFeePerGas"},
                           !.gasLimit = DefaultGasLimit,
                           !.maxFeePerGas = MaxFeePerGas,
                           !.maxPriorityFeePerGas = MaxPriorityFeePerGas]
    ELSE [NoOptions EXCEPT !.keys = {"gasLimit", "gasPrice"},
                           !.gasLimit = DefaultGasLimit,
                           !.gasPrice = GasPrice]

\* deployOptions before the nonce is known
FeeOptions(chainId, gasLimit) ==
    IF IsArbitrum(chainId)
    THEN [NoOptions EXCEPT !.keys = {"gasLimit", "maxFeePerGas", "maxPriorityFeePerGas"},
                           !.gasLimit = gasLimit,
                           !.maxFeePerGas = MaxFeePerGas,
                           !.maxPriorityFeePerGas = MaxPriorityFeePerGas]
    ELSE [NoOptions EXCEPT !.keys = {"gasLimit", "gasPrice"},
                           !.gasLimit = gasLimit,
                           !.gasPrice = GasPrice]

\* the entries the interface keeps as fragments: an entry that is null, or a
\* constructor whose inputs is no array or holds an input without a type, is
\* dropped with a warning
ValidFragment(item) ==
    /\ item.type # "null"
    /\ (item.type = "constructor" /\ item.hasInputs) =>
          /\ item.isArray
          /\ \A i \in 1..Len(item.inputs) : item.inputs[i].type # Absent

\* the interface's deploy fragment: its first constructor fragment, or
\* constructor() when it has none
RECURSIVE DeployFragment(_)
DeployFragment(a) ==
    IF a = <<>> THEN Undefined
    ELSE IF ValidFragment(Head(a)) /\ Head(a).type = "constructor" THEN Head(a)
    ELSE DeployFragment(Tail(a))

\* the number of inputs of the interface's deploy fragment
DeployArity(a) == Len(DeployFragment(a).inputs)

Init ==
    /\ hasEthereum \in BOOLEAN
    /\ pc = "idle"
    /\ params = NoParams
    /\ abi = <<>>
    /\ bytecode = <<>>
    /\ constructorArgs = <<>>
    /\ normalizedArgs = <<>>
    /\ encoderArgs = <<>>
    /\ deployOptions = NoOptions
    /\ txData = <<>>
    /\ tx = NoTx
    /\ receipt = NoReceipt
    /\ result = Pending
    /\ walletState = NullWallet
    /\ isDeployModalOpen = FALSE
    /\ rustCodeToDeploy = ""
    /\ solidityCode = SolidityInitial
    /\ rustCode = RustInitial
    /\ isConverting = FALSE
    /\ conversionError = NullText
    /\ isConverted = FALSE
    /\ conversions = <<>>
    /\ toast = ""
    /\ isDeploying = FALSE
    /\ deploymentError = NullText
    /\ deploymentSuccess = FALSE
    /\ contractAddress = NullText
    /\ transactionHash = NullText
    /\ deployCalls = <<>>
    /\ switches = <<>>
    /\ request = NoRequest
    /\ modelCalls = 0
    /\ modelReply = NoReply
    /\ compiled = NoOutput
    /\ response = NoResponse

\* the call: the wallet check, then the compile request is sent
DeployContract ==
    /\ pc = "idle"
    /\ \E name \in ContractNames, text \in RawTexts, chainId \in ChainIds,
          gasLimit \in GasLimits :
         params' = [contractName |-> name, constructorArgs |-> text,
                    gasLimit |-> gasLimit, chainId |-> chainId]
    /\ IF hasEthereum
       THEN pc' = "compile" /\ result' = result
       ELSE pc' = "done" /\ result' = Thrown(<<"No Ethereum wallet detected">>)
    /\ UNCHANGED <<hasEthereum, abi, bytecode, constructorArgs, normalizedArgs,
                   encoderArgs, deployOptions, txData, tx, receipt>>
    /\ UNCHANGED <<uiVars, serverVars>>

\* the compile request rejects, or is answered with a status that is not ok
CompileFails ==
    /\ pc = "compile"
    /\ \E reason \in RejectReasons \cup {ErrorOf(<<"Compilation failed">>)} :
         result' = Failure(reason)
    /\ pc' = "done"
    /\ UNCHANGED <<hasEthereum, params, abi, bytecode, constructorArgs, normalizedArgs,
                   encoderArgs, deployOptions, txData, tx, receipt>>
    /\ UNCHANGED <<uiVars, serverVars>>

\* what simulateCompileWithGemini gives compileRustToEVM: it throws (the
\* model call or JSON.parse failed), or returns an object with or without abi
SimulateOutput(threw, hasAbi, a, b) ==
    [threw |-> threw, hasAbi |-> hasAbi, abi |-> a, bytecode |-> b]

\* !v
Falsy(v) ==
    \/ TypeOf(v) = "undefined"
    \/ v = NullV
    \/ TypeOf(v) = "string" /\ v.s = <<>>
    \/ TypeOf(v) = "number" /\ v.n = 0
    \/ TypeOf(v) = "boolean" /\ ~v.b

HexUpper == {"A", "B", "C", "D", "E", "F"}

Placeholder == <<"P", "L", "A", "C", "E", "H", "O", "L", "D", "E", "R">>

\* /^0x[0-9a-f]+$/i.test(s)
HexPattern(s) ==
    /\ Len(s) >= 3
    /\ s[1] = "0"
    /\ s[2] \in {"x", "X"}
    /\ \A i \in 3..Len(s) : s[i] \in HexDigits \cup HexUpper

\* the test of the bytecode of the model's output without its last clause
NeedsMockNoPattern(b) ==
    \/ Falsy(b)
    \/ ~StartsWith(b.s, HexPrefix)
    \/ Includes(b.s, Placeholder)

\* the test of the bytecode of the model's output: it is to be replaced
NeedsMock(b) ==
    \/ Falsy(b)
    \/ ~StartsWith(b.s, HexPrefix)
    \/ Includes(b.s, Placeholder)
    \/ ~HexPattern(b.s)

\* the digits of a mock bytecode, and some of the lists Math.random can give
MockLength == 100
GeneratedDigits ==
    {[i \in 1..MockLength |-> d] : d \in {"0", "f"}}
    \cup {[i \in 1..MockLength |-> IF i % 2 = 0 THEN "3" ELSE "c"]}

MockBytecode(digits) == HexPrefix \o digits

\* what generateContent gave for a compilation: an error (also a text that
\* JSON.parse rejects), or the value parsed from the text: an object with or
\* without abi and with some bytecode, or null or a primitive
CompileReply(kind, hasAbi, a, b) ==
    [kind |-> kind, hasAbi |-> hasAbi, abi |-> a, bytecode |-> b, text |-> <<>>,
     message |-> <<>>]

\* simulateCompileWithGemini from the reply on: compiledOutput, or a throw.
\* Reading bytecode of null throws, and so does startsWith of a bytecode that
\* is no string and the assignment of bytecode to a primitive (module code is
\* strict).
simulateCompileWithGemini(reply, digits) ==
    IF reply.kind # "object"
    THEN SimulateOutput(TRUE, FALSE, <<>>, <<>>)
    ELSE IF ~Falsy(reply.bytecode) /\ TypeOf(reply.bytecode) # "string"
    THEN SimulateOutput(TRUE, FALSE, <<>>, <<>>)
    ELSE IF NeedsMock(reply.bytecode)
    THEN SimulateOutput(FALSE, reply.hasAbi, reply.abi, MockBytecode(digits))
    ELSE SimulateOutput(FALSE, reply.hasAbi, reply.abi, reply.bytecode.s)

\* what simulateCompileWithGemini gives compileRustToEVM: the model's abi and
\* bytecode after the test, an output without abi, or a throw
SimulateOutcomes ==
    {simulateCompileWithGemini(CompileReply("object", TRUE, a, StrV(b)), digits) :
        a \in ABIs, b \in Bytecodes, digits \in {[i \in 1..MockLength |-> "0"]}}
    \cup {SimulateOutput(TRUE, FALSE, <<>>, <<>>),
          SimulateOutput(FALSE, FALSE, <<>>, BytecodeHex)}

\* the server's compileRustToEVM: the payload POST /api/compile answers with
compileRustToEVM(compiledOutput) ==
    IF compiledOutput.threw
    THEN [abi |-> <<>>, bytecode |-> <<>>, success |-> FALSE,
          error |-> <<"Unknown error during compilation">>]
    ELSE IF ~compiledOutput.hasAbi \/ compiledOutput.bytecode = <<>>
    THEN [abi |-> <<>>, bytecode |-> <<>>, success |-> FALSE,
          error |-> <<"Failed to compile Rust code to EVM bytecode">>]
    ELSE [abi |-> compiledOutput.abi, bytecode |-> compiledOutput.bytecode,
          success |-> TRUE, error |-> <<>>]

\* the compile response is ok: { abi, bytecode } are read from it
CompileResolves ==
    /\ pc = "compile"
    /\ \E compiledOutput \in SimulateOutcomes :
         LET compilationResponse == compileRustToEVM(compiledOutput)
         IN  abi' = compilationResponse.abi /\ bytecode' = compilationResponse.bytecode
    /\ pc' = "signer"
    /\ UNCHANGED <<hasEthereum, params, constructorArgs, normalizedArgs, encoderArgs,
                   deployOptions, txData, tx, receipt, result>>
    /\ UNCHANGED <<uiVars, serverVars>>

GetSignerRejects ==
    /\ pc = "signer"
    /\ \E reason \in RejectReasons : result' = Failure(reason)
    /\ pc' = "done"
    /\ UNCHANGED <<hasEthereum, params, abi, bytecode, constructorArgs, normalizedArgs,
                   encoderArgs, deployOptions, txData, tx, receipt>>
    /\ UNCHANGED <<uiVars, serverVars>>

\* the signer is there: arguments are normalized, the factory and the fee
\* options are built, the nonce is asked for
GetSignerResolves ==
    /\ pc = "signer"
    /\ constructorArgs' = NormalizeArgs(params.constructorArgs, abi)
    /\ normalizedArgs' = constructorArgs'
    /\ deployOptions' = FeeOptions(params.chainId, params.gasLimit)
    /\ pc' = "nonce"
    /\ UNCHANGED <<hasEthereum, params, abi, bytecode, encoderArgs, txData, tx,
                   receipt, result>>
    /\ UNCHANGED <<uiVars, serverVars>>

GetNonceRejects ==
    /\ pc = "nonce"
    /\ \E reason \in RejectReasons : result' = Failure(DeployError(reason))
    /\ pc' = "done"
    /\ UNCHANGED <<hasEthereum, params, abi, bytecode, constructorArgs, normalizedArgs,
                   encoderArgs, deployOptions, txData, tx, receipt>>
    /\ UNCHANGED <<uiVars, serverVars>>

Nonces == {0, 7}

WithNonce(options, nonce) ==
    [options EXCEPT !.keys = @ \cup {"nonce"}, !.nonce = nonce]

\* the ABI encoding of a list of arguments, one word for each
RECURSIVE EncodedWords(_)
EncodedWords(args) ==
    IF args = <<>> THEN <<>> ELSE <<"0", "1">> \o EncodedWords(Tail(args))

\* factory.interface.encodeDeploy(args) inside its try / catch; encodes is
\* whether the encoder accepted the arguments
EncodeDeployData(args, encodes) ==
    LET data == IF encodes THEN HexPrefix \o EncodedWords(args) ELSE <<>>
    IN  IF ~encodes \/ data = <<>> \/ data = HexPrefix THEN HexPrefix ELSE data

\* data of the transactionRequest with the encoding appended as it is
FinalDataWholeEncoding(code, data) ==
    LET hexBytecode == IF StartsWith(code, HexPrefix) THEN code ELSE HexPrefix \o code
    IN  IF data # <<>> /\ data # HexPrefix
        THEN hexBytecode \o data
        ELSE hexBytecode

\* data of the transactionRequest
FinalData(code, data) ==
    LET hexBytecode == IF StartsWith(code, HexPrefix) THEN code ELSE HexPrefix \o code
        deployData  == IF StartsWith(data, HexPrefix)
                       THEN SubSeq(data, 3, Len(data)) ELSE data
    IN  IF deployData # <<>> /\ deployData # <<"0">>
        THEN hexBytecode \o deployData
        ELSE hexBytecode

\* The encoder takes a list only if it has one value for each constructor
\* input; whether it takes the values themselves is left open.
EncoderOutcomes(args, a) ==
    IF Len(args) # DeployArity(a) THEN {FALSE}
    ELSE IF args = <<>> THEN {TRUE}
    ELSE BOOLEAN

\* the nonce is known, chain 42161 / 421613: arguments are processed and
\* encoded, the transaction request is built and given to the signer
NonceResolvesDirect ==
    /\ pc = "nonce"
    /\ IsArbitrum(params.chainId)
    /\ ~DirectPathThrows(params.contractName, abi)
    /\ constructorArgs' = DirectPathArgs(params.contractName, abi, constructorArgs)
    /\ encoderArgs' = constructorArgs'
    /\ \E encodes \in EncoderOutcomes(constructorArgs', abi) :
         txData' = FinalData(bytecode, EncodeDeployData(constructorArgs', encodes))
    /\ \E nonce \in Nonces : deployOptions' = WithNonce(deployOptions, nonce)
    /\ pc' = "send"
    /\ UNCHANGED <<hasEthereum, params, abi, bytecode, normalizedArgs, tx, receipt,
                   result>>
    /\ UNCHANGED <<uiVars, serverVars>>

\* the nonce is known, chain 42161 / 421613: the processing of the arguments
\* throws, the inner catch rethrows and the outer catch returns
NonceResolvesDirectThrows ==
    /\ pc = "nonce"
    /\ IsArbitrum(params.chainId)
    /\ DirectPathThrows(params.contractName, abi)
    /\ \E nonce \in Nonces : deployOptions' = WithNonce(deployOptions, nonce)
    /\ result' = Failure(DeployError(ErrorOf(DirectPathError(params.contractName, abi))))
    /\ pc' = "done"
    /\ UNCHANGED <<hasEthereum, params, abi, bytecode, constructorArgs, normalizedArgs,
                   encoderArgs, txData, tx, receipt>>
    /\ UNCHANGED <<uiVars, serverVars>>

\* factory.deploy(...constructorArgs, deployOptions) is given
\* Len(constructorArgs) + 1 values: with one more than the constructor's
\* inputs the last is the overrides, with exactly as many the options object
\* is taken as the last argument, otherwise the call rejects.
DeployCallAccepted(args, a) ==
    Len(args) + 1 = DeployArity(a) + 1 \/ Len(args) + 1 = DeployArity(a)

ArityError == ErrorOf(<<"incorrect number of arguments to constructor">>)
ValueError == ErrorOf(<<"invalid argument value">>)

\* the nonce is known, any other chain: factory.deploy builds the
\* transaction and gives it to the signer
NonceResolvesStandard ==
    /\ pc = "nonce"
    /\ ~IsArbitrum(params.chainId)
    /\ DeployCallAccepted(constructorArgs, abi)
    /\ encoderArgs' = constructorArgs
    /\ \E nonce \in Nonces : deployOptions' = WithNonce(deployOptions, nonce)
    /\ tx' = [tx EXCEPT !.withOverrides = (Len(constructorArgs) = DeployArity(abi))]
    /\ pc' = "send"
    /\ UNCHANGED <<hasEthereum, params, abi, bytecode, constructorArgs, normalizedArgs,
                   txData, receipt, result>>
    /\ UNCHANGED <<uiVars, serverVars>>

\* the nonce is known, any other chain: factory.deploy rejects the arguments
NonceResolvesStandardRejected ==
    /\ pc = "nonce"
    /\ ~IsArbitrum(params.chainId)
    /\ encoderArgs' = constructorArgs
    /\ \E nonce \in Nonces : deployOptions' = WithNonce(deployOptions, nonce)
    /\ IF DeployCallAccepted(constructorArgs, abi)
       THEN DeployArity(abi) > 0 /\ result' = Failure(DeployError(ValueError))
       ELSE result' = Failure(DeployError(ArityError))
    /\ pc' = "done"
    /\ UNCHANGED <<hasEthereum, params, abi, bytecode, constructorArgs, normalizedArgs,
                   txData, tx, receipt>>
    /\ UNCHANGED <<uiVars, serverVars>>

TxHash == "0x7e57"
ReceiptAddress == "0xc0de"
CreateAddress == "0xc4ea7e"

\* signer.sendTransaction rejects (direct), or factory.deploy does (standard)
SendRejects ==
    /\ pc = "send"
    /\ \E reason \in RejectReasons : result' = Failure(DeployError(reason))
    /\ tx' = [tx EXCEPT !.state = "rejected"]
    /\ pc' = "done"
    /\ UNCHANGED <<hasEthereum, params, abi, bytecode, constructorArgs, normalizedArgs,
                   encoderArgs, deployOptions, txData, receipt>>
    /\ UNCHANGED <<uiVars, serverVars>>

SendResolves ==
    /\ pc = "send"
    /\ tx' = [tx EXCEPT !.state = "sent", !.hash = TxHash]
    /\ pc' = "wait"
    /\ UNCHANGED <<hasEthereum, params, abi, bytecode, constructorArgs, normalizedArgs,
                   encoderArgs, deployOptions, txData, receipt, result>>
    /\ UNCHANGED <<uiVars, serverVars>>

\* tx.wait() rejects
WaitRejects ==
    /\ pc = "wait"
    /\ \E reason \in RejectReasons : result' = Failure(DeployError(reason))
    /\ receipt' = [receipt EXCEPT !.observed = "rejected"]
    /\ pc' = "done"
    /\ UNCHANGED <<hasEthereum, params, abi, bytecode, constructorArgs, normalizedArgs,
                   encoderArgs, deployOptions, txData, tx>>
    /\ UNCHANGED <<uiVars, serverVars>>

\* what tx.wait() can resolve to: null, or a receipt
WaitOutcomes ==
    {[observed |-> "null",    status |-> 0, contractAddress |-> ""],
     [observed |-> "receipt", status |-> 1, contractAddress |-> ReceiptAddress],
     [observed |-> "receipt", status |-> 0, contractAddress |-> ReceiptAddress],
     [observed |-> "receipt", status |-> 0, contractAddress |-> ""],
     [observed |-> "receipt", status |-> 1, contractAddress |-> ""]}

\* receipt && receipt.status === 0
StatusIsZero(r) == r.observed = "receipt" /\ r.status = 0

\* the direct path after tx.wait(): status check, then receipt?.contractAddress
DirectOutcome(r, hash) ==
    IF StatusIsZero(r)
    THEN Failure(DeployError(ErrorOf(<<"Transaction failed">>)))
    ELSE IF r.observed # "receipt" \/ r.contractAddress = ""
    THEN Failure(DeployError(ErrorOf(
             <<"Deployment failed - contract address not available">>)))
    ELSE Success(r.contractAddress, hash)

\* the standard path after deploymentTx.wait(): status check only; the
\* address is the one the factory computed for the contract
StandardOutcome(r, hash) ==
    IF StatusIsZero(r)
    THEN Failure(DeployError(ErrorOf(<<"Transaction failed">>)))
    ELSE Success(CreateAddress, hash)

WaitResolves ==
    /\ pc = "wait"
    /\ \E r \in WaitOutcomes :
         /\ receipt' = r
         /\ result' = IF IsArbitrum(params.chainId)
                      THEN DirectOutcome(r, tx.hash)
                      ELSE StandardOutcome(r, tx.hash)
    /\ pc' = "done"
    /\ UNCHANGED <<hasEthereum, params, abi, bytecode, constructorArgs, normalizedArgs,
                   encoderArgs, deployOptions, txData, tx>>
    /\ UNCHANGED <<uiVars, serverVars>>

Next ==
    \/ DeployContract
    \/ CompileFails
    \/ CompileResolves
    \/ GetSignerRejects
    \/ GetSignerResolves
    \/ GetNonceRejects
    \/ NonceResolvesDirect
    \/ NonceResolvesDirectThrows
    \/ NonceResolvesStandard
    \/ NonceResolvesStandardRejected
    \/ SendRejects
    \/ SendResolves
    \/ WaitRejects
    \/ WaitResolves

Spec == Init /\ [][Next]_vars

(***************************************************************************)
(* The page's handlers.  A handler runs to its first await in one step;    *)
(* what follows the await runs in the step in which the call settles.      *)
(***************************************************************************)
\* the sequence without its i-th element
RemoveAt(seq, i) == SubSeq(seq, 1, i - 1) \o SubSeq(seq, i + 1, Len(seq))

\* the name the registry has for a chain id, if it has one
RECURSIVE NetworkName(_, _)
NetworkName(list, chainId) ==
    IF list = <<>> THEN "Unknown Network"
    ELSE IF Head(list).id = chainId THEN Head(list).name
    ELSE NetworkName(Tail(list), chainId)

\* the account of the wallet
WalletAddress == "0xa11ce"

\* what connectWallet resolves with when the wallet is on chainId
connectWallet(chainId) ==
    [isConnected |-> TRUE, address |-> WalletAddress, chainId |-> chainId,
     chainName |-> NetworkName(networks, chainId)]

\* AppHeader.handleConnectWallet with connectWallet resolved: Home keeps the
\* wallet state
HandleConnectWallet ==
    /\ hasEthereum
    /\ ~walletState.isConnected
    /\ \E chainId \in ChainIds :
         walletState' = connectWallet(chainId)
    /\ UNCHANGED <<isDeployModalOpen, rustCodeToDeploy, panelVars, modalVars, deployVars, serverVars, headerVars>>

\* the user edits the Solidity editor (here: empties it)
EditSolidity ==
    /\ solidityCode # ""
    /\ solidityCode' = ""
    /\ UNCHANGED <<rustCode, isConverting, conversionError, isConverted, conversions,
                   toast, homeVars, modalVars, deployVars, serverVars, headerVars>>

\* a convertSolidityToRust call: where it is, the model requests made for it
ConversionCall(stage, modelRequests, code) ==
    [stage |-> stage, modelRequests |-> modelRequests, solidityCode |-> code]

\* ConversionPanel.handleConversion up to its await; the Convert button is
\* disabled while isConverting
HandleConversion ==
    /\ ~isConverting
    /\ isConverting' = TRUE
    /\ conversionError' = NullText
    /\ isConverted' = FALSE
    /\ conversions' = Append(conversions, ConversionCall("request", 0, solidityCode))
    /\ UNCHANGED <<solidityCode, rustCode, toast, homeVars, modalVars, deployVars, serverVars, headerVars>>

\* POST /api/convert reaches the route with code in the body: the server's
\* convertSolidityToRust calls the model
ConvertAsksModel(i) ==
    /\ conversions[i].stage = "request"
    /\ conversions[i].solidityCode # ""
    /\ conversions' = [conversions EXCEPT ![i].stage = "model",
                                          ![i].modelRequests = @ + 1]
    /\ UNCHANGED <<solidityCode, rustCode, isConverting, conversionError, isConverted,
                   toast, homeVars, modalVars, deployVars, serverVars, headerVars>>

\* the same step with the model asked again when it was asked before
ConvertAsksModelAgain(i) ==
    /\ conversions[i].solidityCode # ""
    /\ conversions' = [conversions EXCEPT ![i].stage = "model",
                                          ![i].modelRequests = @ + 1]
    /\ UNCHANGED <<solidityCode, rustCode, isConverting, conversionError, isConverted,
                   toast, homeVars, modalVars, deployVars, serverVars, headerVars>>

ConversionResult(success, code, error) ==
    [success |-> success, rustCode |-> code, error |-> error]

\* what a convertSolidityToRust call can settle with: before the model is
\* asked, the failure of the request (no code in the body, or the transport);
\* after, the model's text, or the failure of the model call or of an empty
\* text, with or without a message
ConversionOutcomes(call) ==
    IF call.stage = "request"
    THEN {ConversionResult(FALSE, "", <<"400: Solidity code is required">>)}
    ELSE {ConversionResult(TRUE, RustConverted, NullText),
          ConversionResult(FALSE, "", <<"Failed to generate Rust code">>),
          ConversionResult(FALSE, "", <<>>)}

\* the call settles and handleConversion goes on after its await
ConversionSettles(i) ==
    /\ \E r \in ConversionOutcomes(conversions[i]) :
         IF r.success
         THEN /\ rustCode' = r.rustCode
              /\ isConverted' = TRUE
              /\ conversionError' = conversionError
         ELSE /\ conversionError' =
                    IF r.error # <<>> /\ r.error # NullText THEN r.error
                    ELSE <<"Conversion failed. Please check your Solidity code and try again.">>
              /\ UNCHANGED <<rustCode, isConverted>>
    /\ isConverting' = FALSE
    /\ conversions' = RemoveAt(conversions, i)
    /\ UNCHANGED <<solidityCode, toast, homeVars, modalVars, deployVars, serverVars, headerVars>>

\* handleClear that also takes isConverting back
HandleClearAll ==
    /\ solidityCode' = SolidityCleared
    /\ rustCode' = RustCleared
    /\ isConverted' = FALSE
    /\ conversionError' = NullText
    /\ isConverting' = FALSE
    /\ UNCHANGED <<conversions, toast, homeVars, modalVars, deployVars, serverVars, headerVars>>

\* handleClear that leaves the Converted flag as it is
HandleClearKeepsConverted ==
    /\ solidityCode' = SolidityCleared
    /\ rustCode' = RustCleared
    /\ conversionError' = NullText
    /\ UNCHANGED <<isConverted, isConverting, conversions, toast, homeVars, modalVars, deployVars, serverVars, headerVars>>

\* ConversionPanel.handleClear
HandleClear ==
    /\ solidityCode' = SolidityCleared
    /\ rustCode' = RustCleared
    /\ isConverted' = FALSE
    /\ conversionError' = NullText
    /\ UNCHANGED <<isConverting, conversions, toast, homeVars, modalVars, deployVars, serverVars, headerVars>>

\* ConversionPanel.handleLoadExample
HandleLoadExample ==
    /\ solidityCode' = SolidityExample
    /\ UNCHANGED <<rustCode, isConverting, conversionError, isConverted, conversions,
                   toast, homeVars, modalVars, deployVars, serverVars, headerVars>>

\* ConversionPanel.handleCopyRustCode
HandleCopyRustCode ==
    /\ toast' = "Copied!"
    /\ UNCHANGED <<solidityCode, rustCode, isConverting, conversionError, isConverted,
                   conversions, homeVars, modalVars, deployVars, serverVars, headerVars>>

\* ConversionPanel.handleDeploy and Home.handleDeployClick; the button is
\* disabled unless the code is converted and the wallet is connected
PanelHandleDeploy ==
    /\ isConverted
    /\ walletState.isConnected
    /\ rustCodeToDeploy' = rustCode
    /\ isDeployModalOpen' = TRUE
    /\ UNCHANGED <<walletState, panelVars, modalVars, deployVars, serverVars, headerVars>>

\* a deployContract call of the modal: the await it is suspended at, and the
\* compile requests and transactions it has issued
DeployCall(at, compileRequests, submissions) ==
    [pc |-> at, compileRequests |-> compileRequests, submissions |-> submissions]

\* the modal is rendered and open
ModalShown == walletState # NullWallet /\ isDeployModalOpen

\* DeploymentModal.handleDeploy up to its await: deployContract is called and,
\* with a wallet there, sends its compile request; the Deploy button is
\* disabled while isDeploying and after a success
ModalHandleDeploy ==
    /\ ModalShown
    /\ ~isDeploying
    /\ ~deploymentSuccess
    /\ Len(deployCalls) < MaxCalls
    /\ isDeploying' = TRUE
    /\ deploymentError' = NullText
    /\ deploymentSuccess' = FALSE
    /\ deployCalls' = Append(deployCalls,
                             IF hasEthereum THEN DeployCall("compile", 1, 0)
                             ELSE DeployCall("thrown", 0, 0))
    /\ UNCHANGED <<contractAddress, transactionHash, homeVars, panelVars, deployVars, serverVars, headerVars>>

\* the await that follows, in deployContract's order
NextAwait(at) ==
    CASE at = "compile" -> "signer"
      [] at = "signer"  -> "nonce"
      [] at = "nonce"   -> "send"
      [] at = "send"    -> "wait"

\* an await of the call is over and went well, and a step like it that gives
\* the transaction to the signer once more when the signer had it before
DeployCallResubmits(i) ==
    /\ deployCalls[i].pc \in {"compile", "signer", "nonce", "send"}
    /\ deployCalls' =
         [deployCalls EXCEPT
            ![i].pc = IF @ = "send" THEN "send" ELSE NextAwait(@),
            ![i].submissions = IF deployCalls[i].pc \in {"nonce", "send"}
                               THEN @ + 1 ELSE @]
    /\ UNCHANGED <<isDeploying, deploymentError, deploymentSuccess, contractAddress,
                   transactionHash, homeVars, panelVars, deployVars, serverVars, headerVars>>

\* an await of the call is over and went well: the compile response, the
\* signer, the nonce (the transaction is then given to the signer or to
\* factory.deploy), the sent transaction
DeployCallAdvances(i) ==
    /\ deployCalls[i].pc \in {"compile", "signer", "nonce", "send"}
    /\ deployCalls' =
         [deployCalls EXCEPT
            ![i].pc = NextAwait(@),
            ![i].submissions = IF deployCalls[i].pc = "nonce" THEN @ + 1 ELSE @]
    /\ UNCHANGED <<isDeploying, deploymentError, deploymentSuccess, contractAddress,
                   transactionHash, homeVars, panelVars, deployVars, serverVars, headerVars>>

\* what the call can settle with where it is: a failure at every await, a
\* success once the receipt is awaited, the rejection without a wallet
DeployOutcomes(call) ==
    IF call.pc = "thrown" THEN {Thrown(<<"No Ethereum wallet detected">>)}
    ELSE {Failure(DeployError(reason)) : reason \in RejectReasons}
         \cup {Failure(ErrorOf(<<>>))}
         \cup (IF call.pc = "wait" THEN {Success(CreateAddress, TxHash)} ELSE {})

\* the call settles and handleDeploy goes on after its await
DeployCallSettles(i) ==
    /\ \E r \in DeployOutcomes(deployCalls[i]) :
         IF r.state = "returned" /\ r.success /\ r.contractAddress # ""
         THEN /\ deploymentSuccess' = TRUE
              /\ contractAddress' = <<r.contractAddress>>
              /\ transactionHash' = <<r.transactionHash>>
              /\ deploymentError' = deploymentError
         ELSE /\ deploymentError' =
                    IF r.state = "thrown" THEN r.error
                    ELSE IF r.error # <<>> THEN r.error
                    ELSE <<"Deployment failed for unknown reason">>
              /\ UNCHANGED <<deploymentSuccess, contractAddress, transactionHash>>
    /\ isDeploying' = FALSE
    /\ deployCalls' = RemoveAt(deployCalls, i)
    /\ UNCHANGED <<homeVars, panelVars, deployVars, serverVars, headerVars>>

\* DeploymentModal.handleClose: resetState, then Home closes the modal
HandleClose ==
    /\ isDeploying' = FALSE
    /\ deploymentError' = NullText
    /\ deploymentSuccess' = FALSE
    /\ contractAddress' = NullText
    /\ transactionHash' = NullText
    /\ isDeployModalOpen' = FALSE
    /\ UNCHANGED <<walletState, rustCodeToDeploy, deployCalls, panelVars, deployVars, serverVars, headerVars>>

\* the Cancel button, disabled while isDeploying
CancelClicked == ModalShown /\ ~isDeploying /\ HandleClose

\* the dialog's onOpenChange(false): Escape, the overlay, the close button
DialogDismissed == ModalShown /\ HandleClose

UINext ==
    \/ HandleConnectWallet
    \/ EditSolidity
    \/ HandleConversion
    \/ \E i \in 1..Len(conversions) : ConvertAsksModel(i)
    \/ \E i \in 1..Len(conversions) : ConversionSettles(i)
    \/ HandleClear
    \/ HandleLoadExample
    \/ HandleCopyRustCode
    \/ PanelHandleDeploy
    \/ ModalHandleDeploy
    \/ \E i \in 1..Len(deployCalls) : DeployCallAdvances(i)
    \/ \E i \in 1..Len(deployCalls) : DeployCallSettles(i)
    \/ CancelClicked
    \/ DialogDismissed

UISpec == Init /\ [][UINext]_vars

(***************************************************************************)
(* The server.  A route handler runs to its await in the step in which the *)
(* request arrives, and from the model's reply to its response in the step *)
(* in which generateContent settles.                                       *)
(***************************************************************************)
\* the grave accent; a TLA+ string cannot hold it, so "^" stands for it
Tick == "^"

Fence     == <<Tick, Tick, Tick>>
FenceRust == Fence \o <<"r", "u", "s", "t">>

\* text.replace(/```rust|```/g, "")
RECURSIVE StripFences(_)
StripFences(s) ==
    IF s = <<>> THEN <<>>
    ELSE IF StartsWith(s, FenceRust)
    THEN StripFences(SubSeq(s, Len(FenceRust) + 1, Len(s)))
    ELSE IF StartsWith(s, Fence)
    THEN StripFences(SubSeq(s, Len(Fence) + 1, Len(s)))
    ELSE <<Head(s)>> \o StripFences(Tail(s))

\* the same without the trim that follows
CleanUpUntrimmed(text) == StripFences(text)

\* convertWithGemini's clean-up of the model's text
CleanUp(text) == Trim(StripFences(text))

\* the server's convertSolidityToRust from the model's reply on: the body
\* that POST /api/convert answers with
convertSolidityToRust(reply) ==
    IF reply.kind = "text" /\ CleanUp(reply.text) # <<>>
    THEN Response(200, {"rustCode", "success"}, TRUE, CleanUp(reply.text),
                  <<>>, <<>>, <<>>)
    ELSE Response(200, {"rustCode", "success", "error"}, FALSE, <<>>, <<>>, <<>>,
                  IF reply.kind = "text" THEN <<"Failed to generate Rust code">>
                  ELSE IF reply.kind = "error" THEN reply.message
                  ELSE <<"Unknown error during conversion">>)

\* the texts the model answers with: up to MaxPieces of these pieces in a row
MaxPieces == 3
Pieces ==
    {<<Tick>>, Fence, <<"r", "u", "s", "t">>, <<" ">>, <<"\n">>, <<"f", "n">>}

RECURSIVE Concat(_)
Concat(ps) == IF ps = <<>> THEN <<>> ELSE Head(ps) \o Concat(Tail(ps))

ModelTexts ==
    UNION {{Concat(ps) : ps \in [1..n -> Pieces]} : n \in 0..MaxPieces}

\* what generateContent can give for a conversion
ConvertReplies ==
    {ConvertReply("text", t, <<>>) : t \in ModelTexts}
    \cup {ConvertReply("error", <<>>, <<"fetch failed">>),
          ConvertReply("thrown", <<>>, <<>>)}

\* the fields of a request body: missing, null, empty, a text, a number
BodyFields == {UndefinedV, NullV, StrV(<<>>), StrV(<<"f", "n">>), NumV(7)}

\* the body of a 400 and of a 500
Refusal(status, message) ==
    Response(status, {"success", "error"}, FALSE, <<>>, <<>>, <<>>, message)

\* POST /api/convert up to its await
PostConvert ==
    /\ request = NoRequest
    /\ \E hasBody \in BOOLEAN, field \in BodyFields :
         /\ hasBody \/ field = UndefinedV
         /\ request' = Request("convert", hasBody, field, UndefinedV, UndefinedV)
         /\ IF ~hasBody
            THEN /\ response' = Refusal(500, <<"Cannot destructure property">>)
                 /\ modelCalls' = modelCalls
            ELSE IF Falsy(field)
            THEN /\ response' = Refusal(400, <<"Solidity code is required">>)
                 /\ modelCalls' = modelCalls
            ELSE /\ response' = response
                 /\ modelCalls' = modelCalls + 1
    /\ UNCHANGED <<modelReply, compiled, deployVars, uiVars>>

\* generateContent settles for a conversion: convertWithGemini,
\* convertSolidityToRust, res.json(result)
ConvertModelSettles ==
    /\ request.route = "convert"
    /\ response = NoResponse
    /\ \E reply \in ConvertReplies :
         /\ modelReply' = reply
         /\ response' = convertSolidityToRust(reply)
    /\ UNCHANGED <<request, modelCalls, compiled, deployVars, uiVars>>

\* what generateContent can give for a compilation
CompileReplies ==
    {CompileReply("object", hasAbi, a, b) :
        hasAbi \in BOOLEAN, a \in {<<>>, <<CtorNoInputs>>},
        b \in {UndefinedV, NullV, NumV(6080), StrV(<<>>), StrV(HexPrefix),
               StrV(BytecodeHex), StrV(BytecodeNoPrefix),
               StrV(<<"0", "X", "6", "0">>), StrV(<<"0", "x", "A", "b", "6", "0">>),
               StrV(<<"0", "x", "6", "0", "G", "0">>),
               StrV(<<"0", "x", "6", "0", "\n">>), StrV(<<" ", "0", "x", "6", "0">>),
               StrV(HexPrefix \o Placeholder),
               StrV(<<"[">> \o Placeholder \o <<"]">>)}}
    \cup {CompileReply("error", FALSE, <<>>, UndefinedV),
          CompileReply("null", FALSE, <<>>, UndefinedV),
          CompileReply("primitive", FALSE, <<>>, UndefinedV)}

\* POST /api/compile with the contract name looked at before the code
PostCompileNameFirst ==
    /\ request = NoRequest
    /\ \E hasBody \in BOOLEAN, code \in BodyFields, name \in BodyFields :
         /\ hasBody \/ (code = UndefinedV /\ name = UndefinedV)
         /\ request' = Request("compile", hasBody, UndefinedV, code, name)
         /\ IF ~hasBody
            THEN /\ response' = Refusal(500, <<"Cannot destructure property">>)
                 /\ modelCalls' = modelCalls
            ELSE IF Falsy(name)
            THEN /\ response' = Refusal(400, <<"Contract name is required">>)
                 /\ modelCalls' = modelCalls
            ELSE IF Falsy(code)
            THEN /\ response' = Refusal(400, <<"Rust code is required">>)
                 /\ modelCalls' = modelCalls
            ELSE /\ response' = response
                 /\ modelCalls' = modelCalls + 1
    /\ UNCHANGED <<modelReply, compiled, deployVars, uiVars>>

\* POST /api/compile up to its await
PostCompile ==
    /\ request = NoRequest
    /\ \E hasBody \in BOOLEAN, code \in BodyFields, name \in BodyFields :
         /\ hasBody \/ (code = UndefinedV /\ name = UndefinedV)
         /\ request' = Request("compile", hasBody, UndefinedV, code, name)
         /\ IF ~hasBody
            THEN /\ response' = Refusal(500, <<"Cannot destructure property">>)
                 /\ modelCalls' = modelCalls
            ELSE IF Falsy(code)
            THEN /\ response' = Refusal(400, <<"Rust code is required">>)
                 /\ modelCalls' = modelCalls
            ELSE IF Falsy(name)
            THEN /\ response' = Refusal(400, <<"Contract name is required">>)
                 /\ modelCalls' = modelCalls
            ELSE /\ response' = response
                 /\ modelCalls' = modelCalls + 1
    /\ UNCHANGED <<modelReply, compiled, deployVars, uiVars>>

\* generateContent settles for a compilation: simulateCompileWithGemini,
\* compileRustToEVM, res.json(result)
CompileModelSettles ==
    /\ request.route = "compile"
    /\ response = NoResponse
    /\ \E reply \in CompileReplies, digits \in GeneratedDigits :
         LET output  == simulateCompileWithGemini(reply, digits)
             result_ == compileRustToEVM(output)
         IN  /\ modelReply' = reply
             /\ compiled' = output
             /\ response' =
                  Response(200,
                           IF result_.success THEN {"abi", "bytecode", "success"}
                           ELSE {"abi", "bytecode", "success", "error"},
                           result_.success, <<>>, result_.abi, result_.bytecode,
                           result_.error)
    /\ UNCHANGED <<request, modelCalls, deployVars, uiVars>>

\* the response is out: the next request
ResponseSent ==
    /\ response # NoResponse
    /\ request' = NoRequest
    /\ modelCalls' = 0
    /\ modelReply' = NoReply
    /\ compiled' = NoOutput
    /\ response' = NoResponse
    /\ UNCHANGED <<deployVars, uiVars>>

ServerNext ==
    \/ PostConvert
    \/ ConvertModelSettles
    \/ PostCompile
    \/ CompileModelSettles
    \/ ResponseSent

ServerSpec == Init /\ [][ServerNext]_vars

(***************************************************************************)
(* The header: connecting the wallet and choosing a network.               *)
(***************************************************************************)
\* Home's getChainName
getChainName(chainId) ==
    CASE chainId = 1     -> "Ethereum"
      [] chainId = 137   -> "Polygon"
      [] chainId = 10    -> "Optimism"
      [] chainId = 42161 -> "Arbitrum"
      [] chainId = 8453  -> "Base"
      [] OTHER           -> "Unknown Network"

\* the most switchNetwork calls followed at a time
MaxSwitches == 2

SwitchCall(network, captured) == [network |-> network, walletState |-> captured]

\* AppHeader.handleConnectWallet with connectWallet rejected
ConnectWalletFails ==
    /\ ~walletState.isConnected
    /\ toast' = "Wallet Connection Failed"
    /\ UNCHANGED <<solidityCode, rustCode, isConverting, conversionError, isConverted,
                   conversions, homeVars, modalVars, deployVars, serverVars, headerVars>>

\* AppHeader.handleNetworkChange up to its await: a network of the registry
\* is chosen and switchNetwork is called
HandleNetworkChange ==
    /\ Len(switches) < MaxSwitches
    /\ \E k \in 1..Len(networks) :
         switches' = Append(switches, SwitchCall(networks[k], walletState))
    /\ UNCHANGED <<homeVars, panelVars, modalVars, deployVars, serverVars>>

\* Home.handleNetworkChange, as the render that was captured defined it
HomeHandleNetworkChange(current, captured, chainId) ==
    IF captured # NullWallet
    THEN [captured EXCEPT !.chainId = chainId, !.chainName = getChainName(chainId)]
    ELSE current

\* how a switchNetwork call can settle: no wallet, the request rejected, the
\* wallet state not fetched afterwards, or the wallet state fetched
SwitchOutcomes ==
    IF hasEthereum THEN {"rejected", "not fetched", "switched"} ELSE {"no wallet"}

\* the call settles with onNetworkChange called whatever the outcome
SwitchSettlesAlways(i) ==
    /\ \E outcome \in SwitchOutcomes :
         /\ walletState' = HomeHandleNetworkChange(walletState, switches[i].walletState,
                                                   switches[i].network.id)
         /\ toast' = IF outcome = "switched" THEN "Network Changed"
                     ELSE "Network Switch Failed"
    /\ switches' = RemoveAt(switches, i)
    /\ UNCHANGED <<isDeployModalOpen, rustCodeToDeploy, solidityCode, rustCode,
                   isConverting, conversionError, isConverted, conversions, modalVars,
                   deployVars, serverVars>>

\* the call settles and handleNetworkChange goes on after its await
SwitchSettles(i) ==
    /\ \E outcome \in SwitchOutcomes :
         IF outcome = "switched"
         THEN /\ walletState' =
                   HomeHandleNetworkChange(walletState, switches[i].walletState,
                                           switches[i].network.id)
              /\ toast' = "Network Changed"
         ELSE /\ walletState' = walletState
              /\ toast' = "Network Switch Failed"
    /\ switches' = RemoveAt(switches, i)
    /\ UNCHANGED <<isDeployModalOpen, rustCodeToDeploy, solidityCode, rustCode,
                   isConverting, conversionError, isConverted, conversions, modalVars,
                   deployVars, serverVars>>

HeaderNext ==
    \/ HandleConnectWallet
    \/ ConnectWalletFails
    \/ HandleNetworkChange
    \/ \E i \in 1..Len(switches) : SwitchSettles(i)

HeaderSpec == Init /\ [][HeaderNext]_vars

(***************************************************************************)
(* Properties.                                                             *)
(***************************************************************************)
Returned == pc = "done" /\ result.state = "returned"

\* the nonce is set right before the arguments are processed and go to the
\* encoder
EncoderReached ==
    /\ "nonce" \in deployOptions.keys
    /\ ~(IsArbitrum(params.chainId) /\ DirectPathThrows(params.contractName, abi))

\* the normalization block has run
Normalized == pc \in {"nonce", "send", "wait"} \/ EncoderReached

\* C1: whenever deployContract returns success = true, a receipt was observed
\* with a non-zero status and the deployed contract address is not empty; in
\* particular a wait that yields no receipt (null) ends in success = false,
\* on every chain.
C1_SuccessOnlyWithReceipt ==
    /\ (Returned /\ result.success) =>
          /\ receipt.observed = "receipt"
          /\ receipt.status # 0
          /\ result.contractAddress # ""
    /\ (Returned /\ receipt.observed = "null") => ~result.success

\* C2: on every chain, a receipt with status 0, or a rejected send or wait,
\* ends in success = false with a non-empty error message and without a
\* contract address.
C2_RevertIsFailure ==
    (pc = "done" /\ (StatusIsZero(receipt) \/ receipt.observed = "rejected"
                     \/ tx.state = "rejected")) =>
        /\ result.state = "returned"
        /\ ~result.success
        /\ "error" \in result.keys
        /\ result.error # <<>>
        /\ "contractAddress" \notin result.keys
        /\ result.contractAddress = ""

\* C2 witness: a status-0 receipt on the standard path has been reported as
\* a failure
C2_Witness ==
    /\ pc = "done"
    /\ ~IsArbitrum(params.chainId)
    /\ StatusIsZero(receipt)
    /\ ~result.success
    /\ result.error = <<"Deployment failed: ", "Transaction failed">>

\* the text of the call parses / does not parse as JSON
TextParses == JSONParse(params.constructorArgs).ok
ParsedKind == JSONParse(params.constructorArgs).kind

\* the values the text supplies, in order
Supplied ==
    LET parsed == JSONParse(params.constructorArgs)
    IN  IF parsed.kind = "array" THEN parsed.items ELSE ObjectValues(parsed).items

\* the constructor's inputs as the ABI declares them
DeclaredInputs == FindConstructor(abi).inputs

\* the ABI declares a parameter list: an array whose entries carry a type
DeclaresParameters ==
    /\ HasInputs(FindConstructor(abi))
    /\ FindConstructor(abi).isArray
    /\ \A i \in 1..Len(DeclaredInputs) : DeclaredInputs[i].type # Absent

\* a failure that the length of the argument list caused
ArgumentFailure ==
    /\ Returned
    /\ ~result.success
    /\ result.error = DeployError(ArityError).message

\* C3: text that does not parse as JSON does not fail the deployment: the
\* argument list becomes the empty list, deployContract goes on to fee
\* selection and submission, and no failure comes from the argument text.
C3_ParseFailureNeverFails ==
    (Normalized /\ ~TextParses) =>
        /\ normalizedArgs = <<>>
        /\ "gasLimit" \in deployOptions.keys
        /\ ~ArgumentFailure

\* the default of a declared type, tag by tag
ExpectedDefault(type) ==
    CASE type \in {TyString, TyStringArr}       -> StrV(<<>>)
      [] type \in {TyUint256, TyUint8, TyInt256} -> StrV(S0)
      [] type \in {TyBool, TyBoolArr}           -> BoolV(FALSE)
      [] type \in {TyAddress, TyAddressPayable} -> StrV(ZeroAddress)
      [] OTHER                                  -> StrV(S0)

\* C4: text that parses to a number, a boolean, null or a string gives the
\* empty argument list, and nothing in the list comes from the scalar.  Stated
\* in the reading most favourable to the code: the list is empty, or holds
\* nothing but the type defaults of its slots.
C4_ScalarContributesNothing ==
    (Normalized /\ TextParses /\ ParsedKind = "scalar") =>
        \/ normalizedArgs = <<>>
        \/ /\ Len(normalizedArgs) = Len(DeclaredInputs)
           /\ \A i \in 1..Len(normalizedArgs) :
                normalizedArgs[i] = ExpectedDefault(DeclaredInputs[i].type)

IsDefaultValue(v, type) ==
    v \in {ExpectedDefault(type), NumV(0), StrV(SMyToken), StrV(SMTK),
           NumV(DefaultDecimals), NumV(DefaultTotalSupply)}

\* C5: for text that is not JSON, the list handed to the encoder is a list of
\* type-appropriate defaults as long as the constructor's parameter list
\* (empty without a constructor).
C5_NonJsonGivesDefaults ==
    (EncoderReached /\ ~TextParses) =>
        /\ Len(encoderArgs) = DeployArity(abi)
        /\ \A i \in 1..Len(encoderArgs) :
             IsDefaultValue(encoderArgs[i], DeclaredInputs[i].type)

\* C6: an array or object of M values against a constructor of N inputs is
\* normalized to exactly N entries, the first min(M, N) of them the supplied
\* values in their order.
C6_LengthReconciled ==
    (/\ Normalized
     /\ TextParses
     /\ ParsedKind \in {"array", "object"}
     /\ DeclaresParameters) =>
        /\ Len(normalizedArgs) = Len(DeclaredInputs)
        /\ \A i \in 1..Min(Len(Supplied), Len(DeclaredInputs)) :
             normalizedArgs[i] = Supplied[i]

\* C6 witness: more values than inputs were supplied and the list was cut
C6_Witness ==
    /\ Normalized
    /\ ParsedKind = "array"
    /\ HasInputs(FindConstructor(abi))
    /\ Len(DeclaredInputs) >= 2
    /\ Len(Supplied) > Len(DeclaredInputs)
    /\ normalizedArgs = SubSeq(Supplied, 1, Len(DeclaredInputs))

\* C7: every value appended by length reconciliation is the default of the
\* declared type of the slot it fills, array and composite tags included.
C7_PaddedWithTypeDefaults ==
    (/\ Normalized
     /\ TextParses
     /\ ParsedKind \in {"array", "object"}
     /\ DeclaresParameters) =>
        \A i \in (Len(Supplied) + 1)..Len(DeclaredInputs) :
            /\ i <= Len(normalizedArgs)
            /\ normalizedArgs[i] = ExpectedDefault(DeclaredInputs[i].type)

\* C7 witness: (string[], bool[], address payable) was filled from nothing
C7_Witness ==
    /\ Normalized
    /\ TextParses
    /\ Supplied = <<>>
    /\ HasInputs(FindConstructor(abi))
    /\ DeclaredInputs = SubSeq(SigArrays, 1, 3)
    /\ normalizedArgs = <<StrV(<<>>), BoolV(FALSE), StrV(ZeroAddress)>>

\* C8: without a constructor entry, or with a constructor without inputs, the
\* normalizer's list is empty however many values the text supplies.
C8_NoConstructorGivesEmptyList ==
    (Normalized /\ ParsedKind \in {"array", "object"} /\ DeployArity(abi) = 0) =>
        /\ normalizedArgs = <<>>
        /\ EncoderReached => encoderArgs = <<>>

\* "uint" or "int" in the declared type
IntLike(type) == Includes(type, SubUint) \/ Includes(type, SubInt)

CoercedNumber(str) ==
    IF str = <<>> \/ ToNumber(str).nan THEN 0 ELSE ToNumber(str).n

\* C9: on every chain, a supplied string in a slot whose declared type
\* contains "uint" or "int" reaches the encoder as a number: 0 when it is
\* empty or not numeric, its numeric value otherwise.
C9_IntegerStringsCoerced ==
    (EncoderReached /\ ParsedKind \in {"array", "object"}) =>
        \A i \in 1..Min(Min(Len(Supplied), Len(normalizedArgs)), Len(DeclaredInputs)) :
            (IntLike(DeclaredInputs[i].type) /\ TypeOf(normalizedArgs[i]) = "string") =>
                /\ i <= Len(encoderArgs)
                /\ encoderArgs[i] = NumV(CoercedNumber(normalizedArgs[i].s))

\* C10 as stated: every value whose declared type is not integer-like reaches
\* the encoder exactly as length reconciliation left it.
C10_NonIntegerUnchanged ==
    EncoderReached =>
        \A i \in 1..Min(Len(normalizedArgs), Len(DeclaredInputs)) :
            ~IntLike(DeclaredInputs[i].type) =>
                /\ i <= Len(encoderArgs)
                /\ encoderArgs[i] = normalizedArgs[i]

\* the direct path replaces this value by the zero address
BadAddressString(v, type) ==
    /\ Includes(type, SubAddress)
    /\ TypeOf(v) = "string"
    /\ ~StartsWith(v.s, HexPrefix)

\* C10 amended: unless the chain is 42161 / 421613 and the label contains
\* "token" (the list is then rebuilt from the ABI), every value whose declared
\* type is not integer-like reaches the encoder as length reconciliation left
\* it, except that on 42161 / 421613 an address-typed string that does not
\* start with 0x is replaced by the zero address.
C10_NonIntegerUnchangedAmended ==
    (EncoderReached /\ ~(IsArbitrum(params.chainId) /\ IsTokenLabel(params.contractName))) =>
        /\ Len(encoderArgs) = Len(normalizedArgs)
        /\ \A i \in 1..Len(normalizedArgs) :
             ~IntLike(InputTypeAt(DeclaredInputs, i)) =>
                IF /\ IsArbitrum(params.chainId)
                   /\ BadAddressString(normalizedArgs[i], InputTypeAt(DeclaredInputs, i))
                THEN encoderArgs[i] = StrV(ZeroAddress)
                ELSE encoderArgs[i] = normalizedArgs[i]

\* C10 witness: on the direct path a string slot, a bool slot and a
\* well-formed address went through the processing unchanged
C10_Witness ==
    /\ EncoderReached
    /\ IsArbitrum(params.chainId)
    /\ ~IsTokenLabel(params.contractName)
    /\ \E i \in 1..Len(normalizedArgs) :
         /\ InputTypeAt(DeclaredInputs, i) = TyString
         /\ normalizedArgs[i] = StrV(SAbc)
         /\ encoderArgs[i] = StrV(SAbc)

\* the text ["MyToken", "MTK"] against the four-parameter token constructor
TokenExample ==
    /\ params.constructorArgs = ArrayText(<<StrV(SMyToken), StrV(SMTK)>>)
    /\ DeclaredInputs = TokenConstructor

\* C11: for ["MyToken", "MTK"] and constructor (string, string, uint8, uint256)
\* length reconciliation gives ["MyToken", "MTK", "0", "0"] and the encoder is
\* given ["MyToken", "MTK", 0, 0], on every chain and under every label.
C11_TokenExampleCoerced ==
    /\ (Normalized /\ TokenExample) =>
          normalizedArgs = <<StrV(SMyToken), StrV(SMTK), StrV(S0), StrV(S0)>>
    /\ (EncoderReached /\ TokenExample) =>
          encoderArgs = <<StrV(SMyToken), StrV(SMTK), NumV(0), NumV(0)>>

\* a failure that the processing of the arguments caused by throwing
ProcessingFailure ==
    /\ Returned
    /\ ~result.success
    /\ result.error \in {DeployError(ErrorOf(FindTypeError)).message,
                         DeployError(ErrorOf(ForEachTypeError)).message}

\* C12: normalization and coercion are total: whatever the argument text and
\* whatever the ABI (no constructor, inputs missing or no array, entries
\* without type or name, null entries), no exception of these steps ends the
\* deployment in a failure.
C12_NormalizationTotal == ~ProcessingFailure

\* deployOptions has been built
FeeOptionsBuilt == "gasLimit" \in deployOptions.keys

FeeKeys == {"gasPrice", "maxFeePerGas", "maxPriorityFeePerGas"}

\* C13: the fee options of a deployment hold exactly one fee shape:
\* maxFeePerGas and maxPriorityFeePerGas without gasPrice on chains 42161 and
\* 421613, gasPrice alone on every other chain; the values are fixed and
\* gasLimit is the caller's gas limit.
C13_OneFeeShape ==
    FeeOptionsBuilt =>
        /\ deployOptions.gasLimit = params.gasLimit
        /\ IF params.chainId \in {ChainArbitrum, ChainArbitrumGoerli}
           THEN /\ deployOptions.keys \cap FeeKeys = {"maxFeePerGas", "maxPriorityFeePerGas"}
                /\ deployOptions.maxFeePerGas = MaxFeePerGas
                /\ deployOptions.maxPriorityFeePerGas = MaxPriorityFeePerGas
           ELSE /\ deployOptions.keys \cap FeeKeys = {"gasPrice"}
                /\ deployOptions.gasPrice = GasPrice

\* C13 witness: on a chain the registry does not list, a transaction went out
\* with gasPrice and a gas limit typed into the modal
C13_Witness ==
    /\ tx.state = "sent"
    /\ params.chainId \notin {ChainEthereum, ChainArbitrum, ChainArbitrumGoerli}
    /\ params.gasLimit # DefaultGasLimit
    /\ deployOptions.keys = {"gasLimit", "gasPrice", "nonce"}
    /\ deployOptions.gasLimit = params.gasLimit

\* C14: deployContract never throws or rejects: once the call is over it has
\* returned a result object, and a failure carries success = false and an
\* error message, the absence of a browser wallet included.
C14_NeverThrows ==
    pc = "done" =>
        /\ result.state = "returned"
        /\ ~result.success => ("error" \in result.keys /\ result.error # <<>>)

\* the registry flags the chain as one to deploy to directly
FlaggedDirect(chainId) ==
    \E i \in 1..Len(networks) : networks[i].id = chainId /\ networks[i].deployDirectly

\* a transaction was given to the signer
Submitted == tx.state \in {"sent", "rejected"}

\* it was a hand-built transaction request (direct construction)
BuiltDirectly == txData # <<>>

\* C15: a deployment uses direct transaction construction exactly on the
\* chains the registry flags with deployDirectly, and factory.deploy on every
\* chain not so flagged.
C15_DirectIffFlagged ==
    Submitted => (BuiltDirectly <=> FlaggedDirect(params.chainId))

\* the payload of a failed compilation: abi [] and bytecode ""
CompilationFailurePayload == abi = <<>> /\ bytecode = <<>>

\* C16: a transaction is submitted only if the compile step gave a non-empty
\* bytecode string; when /api/compile answers with a compilation failure
\* (success = false, abi [], bytecode ""), deployContract returns
\* success = false and nothing is sent to the signer.
C16_NoBytecodeNoTransaction ==
    /\ tx.state = "sent" => bytecode # <<>>
    /\ (pc = "done" /\ FeeOptionsBuilt /\ CompilationFailurePayload) =>
          (result.state = "returned" /\ ~result.success)

\* C17: at most one deployContract call is outstanding at any time, whatever
\* the user does with the modal (Deploy, Cancel, dismissing the dialog,
\* opening it again from the conversion panel).
C17_OneDeploymentAtATime == Len(deployCalls) <= 1

\* C18: at most one conversion request is outstanding; isConverting is true
\* exactly while a request of handleConversion is outstanding, whatever Clear,
\* Load Example, Copy and Deploy do in between; and while isConverting is true
\* the Convert button is disabled (handleConversion cannot start).
C18_OneConversionAtATime ==
    /\ Len(conversions) <= 1
    /\ isConverting <=> conversions # <<>>
    /\ isConverting => ~ENABLED HandleConversion

\* the model is at work on a request while the panel was cleared and the Rust
\* text copied
C18_Witness ==
    /\ isConverting
    /\ Len(conversions) = 1
    /\ conversions[1].stage = "model"
    /\ solidityCode = SolidityCleared
    /\ rustCode = RustCleared
    /\ toast = "Copied!"

\* C19: nothing is retried.  A deployContract call has issued at most one
\* compile request and given at most one transaction to the signer, and a
\* conversion has asked the model at most once, whatever failed; and a further
\* call appears only in a step of the handler of the Deploy button, a further
\* conversion only in a step of the handler of the Convert button.
C19_NoRetry ==
    [][ /\ \A i \in 1..Len(deployCalls') :
             /\ deployCalls'[i].compileRequests <= 1
             /\ deployCalls'[i].submissions <= 1
        /\ \A i \in 1..Len(conversions') : conversions'[i].modelRequests <= 1
        /\ Len(deployCalls') > Len(deployCalls) => ModalHandleDeploy
        /\ Len(conversions') > Len(conversions) => HandleConversion
      ]_vars

\* a call waits for the receipt of the one transaction it sent, after the one
\* compile request it made, and a conversion that failed is over
C19_Witness ==
    /\ Len(deployCalls) = 1
    /\ deployCalls[1].pc = "wait"
    /\ deployCalls[1].compileRequests = 1
    /\ deployCalls[1].submissions = 1
    /\ conversions = <<>>
    /\ conversionError = <<"Failed to generate Rust code">>

\* a deployContract call is pending before and after the step
StaysPending == deployCalls # <<>> /\ deployCalls' # <<>>

\* a deployContract call settles in the step
Settles == Len(deployCalls') < Len(deployCalls)

\* C20: a deployment is neither timed out nor cancelled.  In a step that leaves
\* a deployContract call pending and the modal open, isDeploying stays true;
\* and a step in which a call settles leaves isDeploying false and exactly one
\* of the two indications set: the success, or an error message.
C20_PendingUntilSettled ==
    [][ /\ (isDeploying /\ StaysPending /\ isDeployModalOpen /\ isDeployModalOpen')
             => isDeploying'
        /\ Settles => /\ ~isDeploying'
                      /\ deploymentSuccess' # (deploymentError' # NullText)
      ]_vars

\* a string that starts with 0x, has hex digits and nothing else after it, at
\* least one, and no placeholder text
WellFormedBytecode(s) ==
    /\ Len(s) > Len(HexPrefix)
    /\ SubSeq(s, 1, Len(HexPrefix)) = HexPrefix
    /\ \A i \in (Len(HexPrefix) + 1)..Len(s) : s[i] \in HexDigits \cup HexUpper
    /\ ~Includes(s, Placeholder)

\* simulateCompileWithGemini was given the model's output and returned
SimulateReturned ==
    request.route = "compile" /\ modelReply # NoReply /\ ~compiled.threw

RECURSIVE OnlyMarkup(_)
OnlyMarkup(s) ==
    \/ s = <<>>
    \/ Head(s) \in WhiteSpace /\ OnlyMarkup(Tail(s))
    \/ StartsWith(s, FenceRust) /\ OnlyMarkup(SubSeq(s, Len(FenceRust) + 1, Len(s)))
    \/ StartsWith(s, Fence) /\ OnlyMarkup(SubSeq(s, Len(Fence) + 1, Len(s)))

\* POST /api/convert was answered from the model's reply
ConversionAnswered == request.route = "convert" /\ modelReply # NoReply

\* C24: the gateway answers with a translation or with a failure, never both.
\* A success carries a Rust text that is not empty, neither starts nor ends
\* with white space and holds no fence marker, and no error; a reply that is
\* an error, or a text that is empty or made of fence markers and white space
\* only, gives a failure with rustCode "" and a message; and cleaning a cleaned
\* text changes nothing.
C24_TranslationOrFailure ==
    ConversionAnswered =>
      /\ response.success =>
           /\ response.rustCode # <<>>
           /\ Head(response.rustCode) \notin WhiteSpace
           /\ response.rustCode[Len(response.rustCode)] \notin WhiteSpace
           /\ ~Includes(response.rustCode, Fence)
           /\ "error" \notin response.keys
      /\ ~response.success =>
           /\ response.rustCode = <<>>
           /\ "error" \in response.keys
           /\ response.error # <<>>
      /\ (modelReply.kind # "text" \/ OnlyMarkup(modelReply.text)) => ~response.success
      /\ (modelReply.kind = "text" /\ ~OnlyMarkup(modelReply.text)) => response.success
      /\ CleanUp(CleanUp(modelReply.text)) = CleanUp(modelReply.text)

\* a text with white space before and a fence after the code was cleaned
C24_Witness ==
    /\ ConversionAnswered
    /\ modelReply.text = <<"\n", "f", "n">> \o Fence
    /\ response.success
    /\ response.rustCode = <<"f", "n">>

\* C22: a value deployContract returns is a success with a contractAddress
\* that is not empty, a transactionHash and no error, or a failure with an
\* error message that is not empty and neither contractAddress nor
\* transactionHash.
C22_TwoResultShapes ==
    Returned =>
      IF result.success
      THEN /\ result.keys = {"success", "contractAddress", "transactionHash"}
           /\ result.contractAddress # ""
           /\ result.transactionHash # ""
      ELSE /\ result.keys = {"success", "error"}
           /\ result.error # <<>>

\* C22 as it holds: a returned value is a success with a contractAddress that
\* is not empty and a transactionHash, or a failure with an error field and
\* neither of them; the error is the caught Error's message as it is, so it
\* is empty when that message is, which can be so only for a failure from
\* before a transaction was given to the signer (later ones are wrapped with
\* a fallback text).
C22_TwoResultShapesAmended ==
    Returned =>
      IF result.success
      THEN /\ result.keys = {"success", "contractAddress", "transactionHash"}
           /\ result.contractAddress # ""
           /\ result.transactionHash # ""
      ELSE /\ result.keys = {"success", "error"}
           /\ result.error = <<>> => tx.state = "none"

\* a failure was returned with the empty message of the rejection caught
C22_Witness ==
    /\ Returned
    /\ ~result.success
    /\ result.keys = {"success", "error"}
    /\ result.error = <<>>

\* a switchNetwork call settles in the step, with the switch made
SwitchSucceeds ==
    Len(switches') < Len(switches) /\ toast' = "Network Changed"

\* a switchNetwork call settles in the step, without it
SwitchFails ==
    Len(switches') < Len(switches) /\ toast' = "Network Switch Failed"

\* C23: the registry is the one source of chain data.  After a switch to a
\* network of the registry succeeded, the wallet state the page holds has that
\* network's id and, as chainName, the name the registry gives it, for each of
\* the six networks.
C23_RegistryNames ==
    [][ (SwitchSucceeds /\ walletState' # NullWallet) =>
          \E i \in 1..Len(switches) :
             /\ switches' = RemoveAt(switches, i)
             /\ walletState'.chainId = switches[i].network.id
             /\ walletState'.chainName = switches[i].network.name
      ]_vars

\* C27: a network switch that fails (no wallet, the request rejected, or the
\* wallet state not fetched afterwards) leaves the page's wallet state as it
\* was; one that succeeds changes chainId and chainName only, address and
\* isConnected stay.
C27_SwitchFrame ==
    [][ /\ SwitchFails => walletState' = walletState
        /\ SwitchSucceeds => /\ walletState'.address = walletState.address
                             /\ walletState'.isConnected = walletState.isConnected
      ]_vars

\* the wallet state a switch to Polygon left is still there after a later
\* switch failed
C27_Witness ==
    /\ walletState = [isConnected |-> TRUE, address |-> WalletAddress,
                      chainId |-> 137, chainName |-> "Polygon"]
    /\ toast = "Network Switch Failed"
    /\ switches = <<>>

\* a number, or a string that parseInt reads as an integer
ValidNumber(v) ==
    \/ TypeOf(v) = "number"
    \/ TypeOf(v) = "string" /\ ~ParseInt(v.s).nan

NumberOf(v) == IF TypeOf(v) = "number" THEN v.n ELSE ParseInt(v.s).n

\* the direct path under a label that contains "token"
TokenBranch ==
    /\ EncoderReached
    /\ IsArbitrum(params.chainId)
    /\ IsTokenLabel(params.contractName)
    /\ ParsedKind \in {"array", "object"}
    /\ DeclaresParameters

\* the i-th declared input is an unsigned integer named like decimals
DecimalsInput(i) ==
    /\ DeclaredInputs[i].name # Absent
    /\ Includes(DeclaredInputs[i].type, SubUint)
    /\ Includes(DeclaredInputs[i].name, SubDecimal)

\* C25: on the direct path under a token label, a valid number that the user
\* supplied for an unsigned-integer parameter named like decimals (a number,
\* or a string that parses as an integer, 0 included) is what the encoder is
\* given for it.
C25_DecimalsOverride ==
    TokenBranch =>
      \A i \in 1..Min(Len(Supplied), Len(DeclaredInputs)) :
         (DecimalsInput(i) /\ ValidNumber(Supplied[i])) =>
            /\ i <= Len(encoderArgs)
            /\ encoderArgs[i] = NumV(NumberOf(Supplied[i]))

\* C26: in the modal the success and the error indication are never set
\* together, and contractAddress is there exactly when deploymentSuccess is
\* true, whatever Deploy clicks, dismissals, reopenings and completions came
\* before (completions of calls started before a dismissal too).
C26_OneIndication ==
    /\ ~(deploymentSuccess /\ deploymentError # NullText)
    /\ contractAddress # NullText <=> deploymentSuccess

\* the step in which Home opens the deployment modal
ModalOpens == ~isDeployModalOpen /\ isDeployModalOpen'

\* C29: the modal is opened only when the latest conversion succeeded and the
\* wallet is connected, and the text it is given is the one a successful
\* conversion stored; so every deployContract call of the modal sends that
\* text from a connected wallet.  isConverted and conversionError are never
\* set together, after any Convert, Clear, Load Example and Deploy.
C29_DeployOnlyConverted ==
    /\ [][ModalOpens => /\ isConverted
                        /\ walletState.isConnected
                        /\ rustCode = RustConverted
                        /\ rustCodeToDeploy' = rustCode]_vars
    /\ [](Len(deployCalls) > 0 => /\ rustCodeToDeploy = RustConverted
                                  /\ walletState.isConnected)
    /\ [](isConverted => rustCode = RustConverted)
    /\ [](~(isConverted /\ conversionError # NullText))

\* a deployContract call of the modal is under way with the converted text,
\* the Solidity editor emptied since the conversion
C29_Witness ==
    /\ isDeployModalOpen
    /\ Len(deployCalls) > 0
    /\ rustCodeToDeploy = RustConverted
    /\ solidityCode = ""
    /\ isConverted

\* the model failed on the request at hand: generateContent threw
ModelFailed == modelReply.kind \in {"error", "thrown"}

\* C28: a POST /api/convert whose body has no or an empty solidityCode is
\* answered 400 with success false and the model is not called; a POST
\* /api/compile is answered 400 when rustCode is missing or empty (looked at
\* first) or contractName is, the model again not called; a request that
\* passes is answered with status 200 also when the model fails, then with
\* success false; a 500 comes only from an exception caught by the handler.
C28_Validation ==
    /\ request.hasBody /\ request.route = "convert" /\ Falsy(request.solidityCode)
         => response = Refusal(400, <<"Solidity code is required">>) /\ modelCalls = 0
    /\ request.hasBody /\ request.route = "compile" /\ Falsy(request.rustCode)
         => response = Refusal(400, <<"Rust code is required">>) /\ modelCalls = 0
    /\ (/\ request.hasBody /\ request.route = "compile"
        /\ ~Falsy(request.rustCode) /\ Falsy(request.contractName))
         => response = Refusal(400, <<"Contract name is required">>) /\ modelCalls = 0
    /\ response.status = 400 => ~response.success /\ modelReply = NoReply
    /\ response.status = 200 => modelCalls = 1
    /\ ModelFailed => /\ response.status = 200
                      /\ ~response.success
                      /\ response.error # <<>>
    /\ response.status \in {0, 200, 400, 500}
    /\ response.status = 500 => ~request.hasBody /\ modelCalls = 0

\* a compile request with neither field is refused for the code
C28_Witness ==
    /\ request.route = "compile"
    /\ request.hasBody
    /\ Falsy(request.rustCode)
    /\ Falsy(request.contractName)
    /\ response.status = 400
    /\ response.error = <<"Rust code is required">>

\* the transaction request of the direct path is built
DirectRequestBuilt ==
    /\ IsArbitrum(params.chainId)
    /\ pc \in {"send", "wait"} \/ tx.state # "none"

\* the bytecode with its 0x
HexBytecode ==
    IF StartsWith(bytecode, HexPrefix) THEN bytecode ELSE HexPrefix \o bytecode

\* C30: on the direct path the data of the transaction begins with the
\* 0x-prefixed bytecode; it is the bytecode followed by the encoding of the
\* arguments without its 0x when they encode to something, and the bytecode
\* alone when the encoder refuses them or there is nothing to encode, the
\* transaction being sent all the same; the request carries the nonce that
\* was fetched from the signer before.
C30_DirectData ==
    /\ DirectRequestBuilt =>
         /\ StartsWith(HexBytecode, HexPrefix)
         /\ StartsWith(txData, HexBytecode)
         /\ txData \in {HexBytecode, HexBytecode \o EncodedWords(encoderArgs)}
         /\ Len(encoderArgs) # DeployArity(abi) => txData = HexBytecode
         /\ "nonce" \in deployOptions.keys
         /\ deployOptions.nonce \in Nonces
    /\ [][(pc = "nonce" /\ pc' = "send" /\ IsArbitrum(params.chainId)) =>
            /\ "nonce" \notin deployOptions.keys
            /\ "nonce" \in deployOptions'.keys
            /\ \E encodes \in EncoderOutcomes(encoderArgs', abi) :
                 txData' = IF encodes /\ encoderArgs' # <<>>
                           THEN HexBytecode \o EncodedWords(encoderArgs')
                           ELSE HexBytecode]_vars

\* the encoder refused the arguments and the transaction was sent with the
\* bytecode alone, under nonce 0
C30_Witness ==
    /\ DirectRequestBuilt
    /\ tx.state = "sent"
    /\ encoderArgs # <<>>
    /\ Len(encoderArgs) = DeployArity(abi)
    /\ txData = HexBytecode
    /\ deployOptions.nonce = 0

\* the arguments were encoded and follow the bytecode
C30_Encoded ==
    /\ DirectRequestBuilt
    /\ tx.state = "sent"
    /\ Len(txData) > Len(HexBytecode)

====
